---------------------------- MODULE Spec2Model ----------------------------
(***************************************************************************)
(* Retrieval and ranking engine of AI_Pdf_Prompter: the query-pdf route,   *)
(* the recent-document-only route, and the ingestion that fills the index. *)
(*                                                                         *)
(* Units.  Scores are cosine similarities; the model holds them as         *)
(* integers in thousandths (0.05 is 50, 0.2 is 200).  Times are            *)
(* milliseconds, as Date.now() gives them.  Products such as               *)
(* maxScore * 0.7 are kept exact by scaling both sides of a comparison.    *)
(***************************************************************************)
EXTENDS Integers, Sequences, FiniteSets, TLC

VARIABLES
    index,      \* vectors stored in namespace "pdf-data": a set of records
    now,        \* the wall clock, Date.now()
    ingest,     \* the upload in flight in parse-pdf (or NoIngest)
    req,        \* the query request in flight (or NoReq)
    resp,       \* the response to the last finished query request (or NoResp)
    calls,      \* collaborator calls issued for the request in flight / last finished
    fn,         \* which pure function a function-level specification applies
    arg,        \* its input
    out         \* its output

vars == <<index, now, ingest, req, resp, calls, fn, arg, out>>

-----------------------------------------------------------------------------
(* Generic helpers *)

Abs(x) == IF x < 0 THEN -x ELSE x

Min(x, y) == IF x <= y THEN x ELSE y

Range(s) == {s[i] : i \in DOMAIN s}

Take(s, n) == SubSeq(s, 1, Min(n, Len(s)))

\* Array.prototype.map over a sequence of indices
Pick(s, idx) == [i \in 1..Len(idx) |-> s[idx[i]]]

-----------------------------------------------------------------------------
(* Array.prototype.sort as the runtime of the routes (Node's V8) runs it   *)
(* for arrays shorter than 64 elements: TimSort with one run, that is      *)
(* CountAndMakeRun followed by BinaryInsertionSort over the whole array.   *)
(* The arrays sorted here hold at most 25 elements (topK).  cmp[i, j] is   *)
(* the comparator's result on the elements at positions i and j of the     *)
(* array as given; the result is the order of those positions.             *)

\* The mutant: selection by repeated plain scan, last element first.
TimSortReversed(n, cmp) == [i \in 1..n |-> n + 1 - i]

TimSort(n, cmp) ==
    LET id == [i \in 1..n |-> i]
        desc == n >= 2 /\ cmp[2, 1] < 0
        RunEnd[i \in 1..n] ==
            IF i >= n THEN n
            ELSE LET order == cmp[i + 1, i]
                 IN  IF (desc /\ order >= 0) \/ (~desc /\ order < 0)
                     THEN i ELSE RunEnd[i + 1]
        runLength == IF n < 2 THEN n ELSE RunEnd[2]
        w0 == IF desc
              THEN [i \in 1..n |-> IF i <= runLength THEN runLength + 1 - i ELSE i]
              ELSE id
        \* binary search of the slot (0-based) of pivot in w[0 .. start)
        BinPos(w, pivot, start) ==
            LET f[l \in 0..start, r \in 0..start] ==
                    IF l < r
                    THEN LET mid == l + ((r - l) \div 2)
                         IN  IF cmp[pivot, w[mid + 1]] < 0
                             THEN f[l, mid] ELSE f[mid + 1, r]
                    ELSE l
            IN  f[0, start]
        Sorted[k \in 1..n] ==
            IF k <= runLength THEN w0
            ELSE LET w == Sorted[k - 1]
                     pivot == w[k]
                     p == BinPos(w, pivot, k - 1)
                 IN  [i \in 1..n |->
                        IF i <= p THEN w[i]
                        ELSE IF i = p + 1 THEN pivot
                        ELSE IF i <= k THEN w[i - 1]
                        ELSE w[i]]
    IN  IF n < 2 THEN id ELSE Sorted[n]

-----------------------------------------------------------------------------
(* query-pdf: grouping of the matches by source document *)

\* Object.keys(matchesByDocument): the sources in order of first appearance
SourcesInOrder(matches) ==
    LET F[i \in 0..Len(matches)] ==
            IF i = 0 THEN <<>>
            ELSE IF \E j \in 1..(i - 1) : matches[j].source = matches[i].source
                 THEN F[i - 1]
                 ELSE Append(F[i - 1], matches[i].source)
    IN  F[Len(matches)]

\* matchesByDocument[source]
MatchesOf(matches, source) == SelectSeq(matches, LAMBDA m : m.source = source)

SeqMax(s) ==
    LET F[i \in 1..Len(s)] == IF i = 1 THEN s[1]
                              ELSE IF s[i] > F[i - 1] THEN s[i] ELSE F[i - 1]
    IN  F[Len(s)]

-----------------------------------------------------------------------------
(* query-pdf, specific branch: the ranking pass *)

MsPerMinute == 60000

\* the mutant: the second step of the schedule missing
RecencyBoostTwoSteps(ageMs) ==
    IF ageMs < 5 * MsPerMinute THEN 200
    ELSE IF ageMs < 120 * MsPerMinute THEN 50
    ELSE 0

\* recencyBoost of a document of the given age (ageInMinutes = ageMs / 60000)
RecencyBoost(ageMs) ==
    IF ageMs < 5 * MsPerMinute THEN 200
    ELSE IF ageMs < 30 * MsPerMinute THEN 100
    ELSE IF ageMs < 120 * MsPerMinute THEN 50
    ELSE 0

\* one entry of rankedSources before the sort (avgScore is computed by the
\* code and read by nothing; it is left out)
RankEntry(matches, source, currentTime) ==
    LET ms == MatchesOf(matches, source)
        maxScore == SeqMax([i \in 1..Len(ms) |-> ms[i].score])
        timestamp == ms[1].timestamp
        ageMs == currentTime - timestamp
    IN  [source |-> source, matches |-> ms, maxScore |-> maxScore,
         finalScore |-> maxScore + RecencyBoost(ageMs),
         timestamp |-> timestamp, matchCount |-> Len(ms),
         recencyBoost |-> RecencyBoost(ageMs), ageMs |-> ageMs]

\* the mutant: the tie-break by timestamp ascending
RankCompareOldestFirst(a, b) ==
    IF Abs(a.finalScore - b.finalScore) > 50
    THEN b.finalScore - a.finalScore
    ELSE a.timestamp - b.timestamp

\* the mutant: no near-tie window, the timestamp decides every pair
RankCompareTimestampOnly(a, b) == b.timestamp - a.timestamp

\* the comparator given to sort
RankCompare(a, b) ==
    IF Abs(a.finalScore - b.finalScore) > 50
    THEN b.finalScore - a.finalScore
    ELSE b.timestamp - a.timestamp

\* rankedSources: Object.entries(matchesByDocument).map(...).sort(...)
RankedSources(matches, currentTime) ==
    LET srcs == SourcesInOrder(matches)
        entries == [i \in 1..Len(srcs) |-> RankEntry(matches, srcs[i], currentTime)]
        cmp == [i \in 1..Len(srcs), j \in 1..Len(srcs) |->
                    RankCompare(entries[i], entries[j])]
    IN  Pick(entries, TimSort(Len(srcs), cmp))


\* ECMAScript's "consistent comparison function" for the entries of one pass:
\* both "goes before" and "compares equal" are transitive (the comparator is
\* antisymmetric by construction)
RankConsistent(entries) ==
    \A a \in Range(entries), b \in Range(entries), c \in Range(entries) :
        /\ (RankCompare(a, b) < 0 /\ RankCompare(b, c) < 0) => RankCompare(a, c) < 0
        /\ (RankCompare(a, b) = 0 /\ RankCompare(b, c) = 0) => RankCompare(a, c) = 0

-----------------------------------------------------------------------------
(* Function-level specification of the ranking pass: the input is the      *)
(* match list of one specific query (one match per source, scores          *)
(* non-increasing as the index returns them) and the time of the request.  *)

MaxRankSources == 4

DocNames == <<"a.pdf", "b.pdf", "c.pdf", "d.pdf", "e.pdf", "f.pdf">>

RankScores == {500, 600, 810, 830, 870}

RankNow == 500 * MsPerMinute

RankAges == {1 * MsPerMinute, 200 * MsPerMinute, 300 * MsPerMinute, 400 * MsPerMinute}

Match(id, source, score, timestamp, chunkIndex, text) ==
    [id |-> id, source |-> source, score |-> score, timestamp |-> timestamp,
     chunkIndex |-> chunkIndex, text |-> text]

NonIncreasing(matches) ==
    \A i \in 1..(Len(matches) - 1) : matches[i].score >= matches[i + 1].score

RankInputs(maxSources) ==
    UNION {
        { m \in [1..n -> [score : RankScores, age : RankAges]] :
              \A i \in 1..(n - 1) : m[i].score >= m[i + 1].score }
        : n \in 1..maxSources }

RankMatches(m) ==
    [i \in 1..Len(m) |->
        Match(<<DocNames[i], 0, RankNow - m[i].age>>, DocNames[i], m[i].score,
              RankNow - m[i].age, 0, "text")]

InitRank ==
    /\ index = {} /\ now = RankNow /\ ingest = <<>> /\ req = <<>> /\ resp = <<>>
    /\ calls = <<>>
    /\ fn = "rank"
    /\ \E m \in RankInputs(MaxRankSources) : arg = RankMatches(m)
    /\ out = <<>>

RankApply ==
    /\ fn = "rank" /\ out = <<>>
    /\ out' = <<RankedSources(arg, now)>>
    /\ UNCHANGED <<index, now, ingest, req, resp, calls, fn, arg>>

NextRank == RankApply

SpecRank == InitRank /\ [][NextRank]_vars

Ranked == out[1]

RankDone == fn = "rank" /\ Len(out) = 1

NearTie(a, b) == Abs(a.finalScore - b.finalScore) <= 50

\* C1 as stated: in every ranking pass, of two sources whose finalScore
\* differ by at most 0.05 the one with the larger timestamp comes first.
C1_NearTieRecentFirst ==
    RankDone =>
        \A i \in 1..Len(Ranked), j \in 1..Len(Ranked) :
            (NearTie(Ranked[i], Ranked[j]) /\ Ranked[i].timestamp > Ranked[j].timestamp)
                => i < j

\* C1 amended: the same, for every pass whose sources the pairwise rule
\* orders consistently (any pass with two sources is one).
C1_NearTieRecentFirstWhenConsistent ==
    (RankDone /\ RankConsistent(Ranked)) =>
        \A i \in 1..Len(Ranked), j \in 1..Len(Ranked) :
            (NearTie(Ranked[i], Ranked[j]) /\ Ranked[i].timestamp > Ranked[j].timestamp)
                => i < j

\* a pass with three sources in which the source put first has the lower
\* finalScore of a near-tie and the larger timestamp
C1_Witness ==
    /\ RankDone /\ RankConsistent(Ranked) /\ Len(Ranked) = 3
    /\ NearTie(Ranked[1], Ranked[2])
    /\ Ranked[1].finalScore < Ranked[2].finalScore
    /\ Ranked[1].timestamp > Ranked[2].timestamp

\* C2 as stated: in every ranking pass, of two sources whose finalScore
\* differ by more than 0.05 the one with the higher finalScore comes first.
C2_ClearGapByScore ==
    RankDone =>
        \A i \in 1..Len(Ranked), j \in 1..Len(Ranked) :
            (~NearTie(Ranked[i], Ranked[j]) /\ Ranked[i].finalScore > Ranked[j].finalScore)
                => i < j

\* C2 amended: the same, for every pass whose sources the pairwise rule
\* orders consistently.
C2_ClearGapByScoreWhenConsistent ==
    (RankDone /\ RankConsistent(Ranked)) =>
        \A i \in 1..Len(Ranked), j \in 1..Len(Ranked) :
            (~NearTie(Ranked[i], Ranked[j]) /\ Ranked[i].finalScore > Ranked[j].finalScore)
                => i < j

\* a pass with three sources in which the source put first is the oldest
\* and leads the second by more than 0.05
C2_Witness ==
    /\ RankDone /\ RankConsistent(Ranked) /\ Len(Ranked) = 3
    /\ ~NearTie(Ranked[1], Ranked[2])
    /\ Ranked[1].finalScore > Ranked[2].finalScore
    /\ Ranked[1].timestamp < Ranked[2].timestamp

-----------------------------------------------------------------------------
(* Function-level specification of the recency boost: the sources of one   *)
(* pass have one or two chunks and ages on both sides of every step.       *)

MaxBoostSources == 2

BoostNow == 500 * MsPerMinute

BoostAges ==
    {0, 5 * MsPerMinute - 1, 5 * MsPerMinute, 30 * MsPerMinute - 1, 30 * MsPerMinute,
     120 * MsPerMinute - 1, 120 * MsPerMinute, 121 * MsPerMinute}

BoostLevels == <<700, 300>>

BoostProfiles == {<<700>>, <<300>>, <<700, 300>>}

BoostInputs(maxSources) ==
    UNION {[1..n -> [scores : BoostProfiles, age : BoostAges]] : n \in 1..maxSources}

\* the matches of the sources, by score, highest first
BoostMatches(m) ==
    LET OfSource(i, score) ==
            LET ks == SelectSeq([k \in 1..Len(m[i].scores) |-> k],
                                LAMBDA k : m[i].scores[k] = score)
            IN  [j \in 1..Len(ks) |->
                    Match(<<DocNames[i], ks[j] - 1, BoostNow - m[i].age>>, DocNames[i],
                          score, BoostNow - m[i].age, ks[j] - 1, "text")]
        AtLevel(score) ==
            LET G[i \in 0..Len(m)] == IF i = 0 THEN <<>> ELSE G[i - 1] \o OfSource(i, score)
            IN  G[Len(m)]
    IN  AtLevel(BoostLevels[1]) \o AtLevel(BoostLevels[2])

InitBoost ==
    /\ index = {} /\ now = BoostNow /\ ingest = <<>> /\ req = <<>> /\ resp = <<>>
    /\ calls = <<>>
    /\ fn = "boost"
    /\ \E m \in BoostInputs(MaxBoostSources) : arg = BoostMatches(m)
    /\ out = <<>>

BoostApply ==
    /\ fn = "boost" /\ out = <<>>
    /\ out' = <<RankedSources(arg, now)>>
    /\ UNCHANGED <<index, now, ingest, req, resp, calls, fn, arg>>

NextBoost == BoostApply

SpecBoost == InitBoost /\ [][NextBoost]_vars

BoostDone == fn = "boost" /\ Len(out) = 1

\* C13: every ranked source carries the boost of the step schedule for its
\* age (under 5 minutes 0.20, under 30 minutes 0.10, under 120 minutes 0.05,
\* else 0), a source never has a larger boost than a younger one, and
\* finalScore is the largest chunk score of the source plus the boost.
C13_BoostSchedule ==
    BoostDone =>
        /\ Len(out[1]) = Cardinality({arg[i].source : i \in 1..Len(arg)})
        /\ \A r \in 1..Len(out[1]) :
              LET e == out[1][r]
                  own == {i \in 1..Len(arg) : arg[i].source = e.source}
              IN  /\ own # {}
                  /\ \A i \in own : e.ageMs = now - arg[i].timestamp
                  /\ (e.ageMs < 5 * 60000) => e.recencyBoost = 200
                  /\ (5 * 60000 <= e.ageMs /\ e.ageMs < 30 * 60000) => e.recencyBoost = 100
                  /\ (30 * 60000 <= e.ageMs /\ e.ageMs < 120 * 60000) => e.recencyBoost = 50
                  /\ (120 * 60000 <= e.ageMs) => e.recencyBoost = 0
                  /\ \E i \in own : e.maxScore = arg[i].score
                  /\ \A i \in own : e.maxScore >= arg[i].score
                  /\ e.finalScore = e.maxScore + e.recencyBoost
        /\ \A r, q \in 1..Len(out[1]) :
              out[1][r].ageMs <= out[1][q].ageMs =>
                  out[1][r].recencyBoost >= out[1][q].recencyBoost

\* one source a millisecond short of 30 minutes, with two chunks, and one of
\* exactly 30 minutes are ranked in one pass
C13_Witness ==
    /\ BoostDone /\ Len(out[1]) = 2
    /\ \E r, q \in 1..2 :
          /\ out[1][r].ageMs = 30 * MsPerMinute - 1 /\ out[1][r].recencyBoost = 100
          /\ out[1][r].matchCount = 2 /\ out[1][r].finalScore = 800
          /\ out[1][q].ageMs = 30 * MsPerMinute /\ out[1][q].recencyBoost = 50

-----------------------------------------------------------------------------
(* query-pdf: from the matches the index returns to the response body *)

\* metadata.text of a vector stored without a text field
Undefined == "<undefined>"

\* null, where the code returns or stores it instead of a document name
Null == "<null>"

\* typeof match.metadata?.text === "string"
TextIsString(m) == m.text # Undefined

\* one element of matchedChunks; text is null when metadata.text is no string
Chunk(m, source, isPrimary) ==
    [text |-> IF TextIsString(m) THEN m.text ELSE Null,
     score |-> m.score, id |-> m.id, source |-> source,
     chunkIndex |-> m.chunkIndex, isPrimary |-> isPrimary]

\* .map(match => chunk).filter(chunk => chunk.text !== null)
Chunks(ms, source, isPrimary) ==
    SelectSeq([i \in 1..Len(ms) |-> Chunk(ms[i], source, isPrimary)],
              LAMBDA c : c.text # Null)

PRIMARY_SOURCE_CHUNKS == 8

SECONDARY_SOURCE_CHUNKS == 2

\* the mutant: the threshold is the larger of the two bounds
AbovePrimaryThresholdMax(score, maxScore) ==
    10 * score > (IF 7 * maxScore >= 500 THEN 7 * maxScore ELSE 500)

\* score > primaryThreshold, primaryThreshold = Math.min(maxScore * 0.7, 0.05)
\* (both sides times ten)
AbovePrimaryThreshold(score, maxScore) == 10 * score > Min(7 * maxScore, 500)

\* the mutant: the bound 0.08 dropped
AboveSecondaryThresholdRelative(score, maxScore) == 10 * score > 8 * maxScore

\* score > secondaryThreshold, secondaryThreshold = Math.min(maxScore * 0.8, 0.08)
AboveSecondaryThreshold(score, maxScore) == 10 * score > Min(8 * maxScore, 800)

\* the mutant: the cap applied after the defensive text filter only, to 10
PrimaryChunksTen(ranked) ==
    IF Len(ranked) >= 1
    THEN Chunks(Take(SelectSeq(ranked[1].matches,
                        LAMBDA m : AbovePrimaryThreshold(m.score, ranked[1].maxScore)),
                     10),
                ranked[1].source, TRUE)
    ELSE <<>>

\* primaryChunks (nothing when there is no ranked source)
PrimaryChunks(ranked) ==
    IF Len(ranked) >= 1
    THEN Chunks(Take(SelectSeq(ranked[1].matches,
                        LAMBDA m : AbovePrimaryThreshold(m.score, ranked[1].maxScore)),
                     PRIMARY_SOURCE_CHUNKS),
                ranked[1].source, TRUE)
    ELSE <<>>

\* the mutant: the secondary source is read whatever the primary gave
SecondaryChunksAlways(ranked, collected) ==
    IF Len(ranked) >= 2
    THEN Chunks(Take(SelectSeq(ranked[2].matches,
                        LAMBDA m : AboveSecondaryThreshold(m.score, ranked[2].maxScore)),
                     SECONDARY_SOURCE_CHUNKS),
                ranked[2].source, FALSE)
    ELSE <<>>

\* secondaryChunks, given the number of chunks collected so far
SecondaryChunks(ranked, collected) ==
    IF Len(ranked) >= 2 /\ collected < 4
    THEN Chunks(Take(SelectSeq(ranked[2].matches,
                        LAMBDA m : AboveSecondaryThreshold(m.score, ranked[2].maxScore)),
                     SECONDARY_SOURCE_CHUNKS),
                ranked[2].source, FALSE)
    ELSE <<>>

\* the mutant: the final sort compares the scores only
FinalCompareScoreOnly(a, b) == b.score - a.score

\* the comparator of the final sort of finalChunks
FinalCompare(a, b) ==
    IF a.isPrimary # b.isPrimary
    THEN (IF a.isPrimary THEN -1 ELSE 1)
    ELSE b.score - a.score

\* finalChunks of the specific branch
SpecificChunks(ranked) ==
    LET primary == PrimaryChunks(ranked)
        all == primary \o SecondaryChunks(ranked, Len(primary))
        cmp == [i \in 1..Len(all), j \in 1..Len(all) |-> FinalCompare(all[i], all[j])]
    IN  Pick(all, TimSort(Len(all), cmp))

\* getMostRecentDocument(matchesByDocument) of query-pdf: the source whose
\* first match carries the largest timestamp, the first such in key order
MostRecentOfMatches(matches) ==
    LET srcs == SourcesInOrder(matches)
        F[i \in 0..Len(srcs)] ==
            IF i = 0 THEN [doc |-> Null, latest |-> 0]
            ELSE LET timestamp == MatchesOf(matches, srcs[i])[1].timestamp
                 IN  IF timestamp > F[i - 1].latest
                     THEN [doc |-> srcs[i], latest |-> timestamp]
                     ELSE F[i - 1]
    IN  F[Len(srcs)].doc

\* finalChunks of the generic branch
GenericChunks(matches, recentDoc) ==
    IF recentDoc # Null
    THEN LET ms == MatchesOf(matches, recentDoc)
             cmp == [i \in 1..Len(ms), j \in 1..Len(ms) |-> ms[j].score - ms[i].score]
         IN  Chunks(Take(Pick(ms, TimSort(Len(ms), cmp)), 10), recentDoc, TRUE)
    ELSE <<>>

\* The body of query-pdf's POST once the index has answered: the JSON
\* response.  keys are the keys of the body.  sourceBreakdown of the
\* specific branch maps the rankedSources declared at function level, which
\* stays []: the ranked list is a const of the else block.  indexStats and
\* queryInfo.enhanced are echoed and left out.
QueryPdfResponse(isGeneric, matches, currentTime) ==
    IF Len(matches) > 0
    THEN LET recentDoc == MostRecentOfMatches(matches)
             ranked == RankedSources(matches, currentTime)
             finalChunks == IF isGeneric THEN GenericChunks(matches, recentDoc)
                            ELSE SpecificChunks(ranked)
             primarySource == IF isGeneric
                              THEN (IF recentDoc # Null THEN recentDoc ELSE "")
                              ELSE (IF Len(ranked) >= 1 THEN ranked[1].source ELSE "")
         IN  [status |-> 200,
              keys |-> {"matchedChunks", "totalMatches", "primarySource",
                        "sourceBreakdown", "queryInfo", "indexStats"},
              matchedChunks |-> finalChunks,
              totalMatches |-> Len(matches),
              primarySource |-> primarySource,
              sourceBreakdown |->
                  IF isGeneric
                  THEN (IF primarySource # ""
                        THEN <<[source |-> primarySource, strategy |-> "most_recent",
                                chunks |-> Len(finalChunks)]>>
                        ELSE <<>>)
                  ELSE <<>>,
              isGeneric |-> isGeneric,
              strategy |-> IF isGeneric THEN "recent_document" ELSE "relevance_based",
              message |-> ""]
    ELSE [status |-> 200,
          keys |-> {"matchedChunks", "totalMatches", "indexStats"},
          matchedChunks |-> <<>>, totalMatches |-> 0, primarySource |-> Null,
          sourceBreakdown |-> <<>>, isGeneric |-> FALSE, strategy |-> "",
          message |-> ""]

\* console.log("Ranked sources:", ...): the ranked list of the specific branch
QueryPdfRankedLog(isGeneric, matches, currentTime) ==
    IF Len(matches) > 0 /\ ~isGeneric THEN RankedSources(matches, currentTime) ELSE <<>>

-----------------------------------------------------------------------------
(* Function-level specification of query-pdf's selection: the input is    *)
(* the answer of the index to one query.  Every source contributes a run   *)
(* of chunks at one score, or a few chunks at a score and a few at a       *)
(* lower one; the answer lists them by score, highest first.  All          *)
(* documents are older than two hours, so finalScore is maxScore.          *)

MaxSelSources == 3

MaxSelChunks == 9

SelLevels == <<400, 90, 80, 60, 50, 40, 0>>

SelScores == Range(SelLevels)

\* the chunk scores of one source, highest first
Rep(score, n) == [i \in 1..n |-> score]

SelProfilesBig ==
    {Rep(hi, a) : hi \in SelScores, a \in 1..MaxSelChunks}
    \cup UNION {{Rep(hi, a) \o Rep(lo, b) :
                    lo \in {l \in SelScores : l < hi},
                    a \in {1, 3, MaxSelChunks}, b \in {1, 2}} : hi \in SelScores}

SelProfilesSmall == {Rep(hi, a) : hi \in {400, 60}, a \in {1, 3}}

SelNow == 1000 * MsPerMinute

\* the upload time of the i-th document: later documents are newer, or older
SelTimestamp(i, newestFirst) ==
    IF newestFirst THEN SelNow - (200 + 10 * i) * MsPerMinute
    ELSE SelNow - (300 - 10 * i) * MsPerMinute

\* the matches of all sources as the index orders them: by score, highest
\* first; equal scores by source and position
SelMatches(profiles, newestFirst) ==
    LET MatchAt(i, k) ==
            LET ts == SelTimestamp(i, newestFirst)
            IN  Match(<<DocNames[i], k - 1, ts>>, DocNames[i], profiles[i][k], ts,
                      k - 1, "text")
        OfSource(i, score) ==
            LET ks == SelectSeq([k \in 1..Len(profiles[i]) |-> k],
                                LAMBDA k : profiles[i][k] = score)
            IN  [j \in 1..Len(ks) |-> MatchAt(i, ks[j])]
        AtLevel(score) ==
            LET G[i \in 0..Len(profiles)] ==
                    IF i = 0 THEN <<>> ELSE G[i - 1] \o OfSource(i, score)
            IN  G[Len(profiles)]
        F[l \in 0..Len(SelLevels)] ==
            IF l = 0 THEN <<>> ELSE F[l - 1] \o AtLevel(SelLevels[l])
    IN  F[Len(SelLevels)]

SelInputs(maxSources) ==
    {<<>>} \cup
    UNION {
        { <<first>> \o rest : first \in SelProfilesBig \cup SelProfilesSmall,
                              rest \in [1..(n - 1) -> SelProfilesSmall] }
        : n \in 1..maxSources }

InitSelect ==
    /\ index = {} /\ now = SelNow /\ ingest = <<>> /\ req = <<>> /\ resp = <<>>
    /\ calls = <<>>
    /\ fn = "query-pdf"
    /\ \E p \in SelInputs(MaxSelSources), newestFirst \in BOOLEAN, isGeneric \in BOOLEAN :
            arg = [isGeneric |-> isGeneric, matches |-> SelMatches(p, newestFirst)]
    /\ out = <<>>

\* out holds the response and the ranked sources as the handler logs them
SelectApply ==
    /\ fn = "query-pdf" /\ out = <<>>
    /\ out' = <<QueryPdfResponse(arg.isGeneric, arg.matches, now),
                QueryPdfRankedLog(arg.isGeneric, arg.matches, now)>>
    /\ UNCHANGED <<index, now, ingest, req, resp, calls, fn, arg>>

NextSelect == SelectApply

SpecSelect == InitSelect /\ [][NextSelect]_vars

SelDone == fn = "query-pdf" /\ Len(out) = 2

SpecificAnswered == SelDone /\ ~arg.isGeneric /\ Len(arg.matches) > 0

Returned == out[1].matchedChunks

ReturnedPrimary == SelectSeq(Returned, LAMBDA c : c.isPrimary)

ReturnedSecondary == SelectSeq(Returned, LAMBDA c : ~c.isPrimary)

RankedLog == out[2]

TopRanked == RankedLog[1]

SecondRanked == RankedLog[2]

\* the chunks of a source that clear min(factor/10 x maxScore, bound/1000)
Clearing(entry, factor, bound) ==
    SelectSeq(entry.matches,
              LAMBDA m : 10 * m.score > factor * entry.maxScore \/ m.score > bound)

SameChunks(chunks, ms, source, isPrimary) ==
    /\ Len(chunks) = Len(ms)
    /\ \A i \in 1..Len(chunks) :
          /\ chunks[i].id = ms[i].id
          /\ chunks[i].score = ms[i].score
          /\ chunks[i].source = source
          /\ chunks[i].isPrimary = isPrimary

\* C9: for a specific query the primary chunks returned are exactly the
\* chunks of the top-ranked source with score > min(0.7 x maxScore, 0.05),
\* in their original order, the first 8 of them, all isPrimary; no chunk of
\* that source at or below the threshold is returned.
C9_PrimarySelection ==
    SpecificAnswered =>
        /\ SameChunks(ReturnedPrimary, Take(Clearing(TopRanked, 7, 50), 8),
                      TopRanked.source, TRUE)
        /\ \A i \in 1..Len(Returned) :
              Returned[i].source = TopRanked.source =>
                  /\ Returned[i].isPrimary
                  /\ (10 * Returned[i].score > 7 * TopRanked.maxScore
                      \/ Returned[i].score > 50)

\* the top-ranked source has more than 8 chunks above the threshold and one
\* at or below it; 8 primary chunks are returned
C9_Witness ==
    /\ SpecificAnswered
    /\ Len(Clearing(TopRanked, 7, 50)) > 8
    /\ Len(Clearing(TopRanked, 7, 50)) < Len(TopRanked.matches)
    /\ Len(ReturnedPrimary) = 8

\* C10: for a specific query chunks of the second-ranked source are
\* returned only if fewer than 4 primary chunks were collected and a second
\* source exists, and then they are its chunks with score >
\* min(0.8 x maxScore, 0.08), the first 2 of them, all not isPrimary; no
\* chunk of a source ranked third or lower is returned.
C10_SecondarySelection ==
    SpecificAnswered =>
        LET ranked == RankedLog
            wanted == Len(ranked) >= 2 /\ Len(ReturnedPrimary) < 4
        IN  /\ ~wanted => ReturnedSecondary = <<>>
            /\ wanted => SameChunks(ReturnedSecondary,
                                    Take(Clearing(SecondRanked, 8, 80), 2),
                                    SecondRanked.source, FALSE)
            /\ \A i \in 1..Len(Returned) :
                  \E r \in 1..Min(2, Len(ranked)) : Returned[i].source = ranked[r].source

\* three sources are ranked, the primary gave fewer than 4 chunks, the
\* second has more than 2 chunks above its threshold and 2 are returned
C10_Witness ==
    /\ SpecificAnswered
    /\ Len(RankedLog) = 3
    /\ Len(ReturnedPrimary) < 4
    /\ Len(Clearing(SecondRanked, 8, 80)) > 2
    /\ Len(ReturnedSecondary) = 2

\* C11: in the matchedChunks of a specific query every primary chunk
\* precedes every secondary chunk, and within each group the scores do not
\* increase.
C11_PrimaryFirstByScore ==
    SpecificAnswered =>
        \A i, j \in 1..Len(Returned) :
            i < j =>
                /\ ~(~Returned[i].isPrimary /\ Returned[j].isPrimary)
                /\ Returned[i].isPrimary = Returned[j].isPrimary =>
                       Returned[i].score >= Returned[j].score

\* two secondary chunks are returned that score higher than a primary chunk
C11_Witness ==
    /\ SpecificAnswered
    /\ Len(ReturnedPrimary) >= 1 /\ Len(ReturnedSecondary) = 2
    /\ ReturnedSecondary[1].score > ReturnedPrimary[1].score

\* a primary group of two different scores
C11_WitnessTwoScores ==
    /\ SpecificAnswered
    /\ \E i, j \in 1..Len(ReturnedPrimary) : ReturnedPrimary[i].score > ReturnedPrimary[j].score

GenericAnswered == SelDone /\ arg.isGeneric /\ Len(arg.matches) > 0

\* the part of C12 that does not depend on which source is chosen: the
\* chunks are the first 10 of the named source, best first, all isPrimary
C12_GenericShape ==
    GenericAnswered =>
        /\ SameChunks(Returned, Take(MatchesOf(arg.matches, out[1].primarySource), 10),
                      out[1].primarySource, TRUE)
        /\ \A i \in 1..(Len(Returned) - 1) : Returned[i].score >= Returned[i + 1].score
        /\ \A m \in Range(arg.matches) :
              \E k \in Range(MatchesOf(arg.matches, out[1].primarySource)) :
                  k.timestamp >= m.timestamp

\* the named source has more than 10 chunks and scores lower than an older one
C12_ShapeWitness ==
    /\ GenericAnswered /\ Len(Returned) = 10
    /\ Len(MatchesOf(arg.matches, out[1].primarySource)) > 10
    /\ arg.matches[1].source # out[1].primarySource

-----------------------------------------------------------------------------
(* query-pdf: isGenericQuery.  A string is the sequence of its characters. *)

\* String.prototype.toLowerCase on the upper-case letters the queries use
LowerOf == ("K" :> "k") @@ ("S" :> "s") @@ ("P" :> "p")

toLowerCase(q) == [i \in 1..Len(q) |-> IF q[i] \in DOMAIN LowerOf THEN LowerOf[q[i]] ELSE q[i]]

\* \s of a regular expression
IsSpace(c) == c \in {" ", "\t", "\n"}

\* \w of a regular expression: [A-Za-z0-9_]
IsWord(c) ==
    c \in {"a", "b", "c", "d", "e", "f", "g", "h", "i", "j", "k", "l", "m", "n",
           "o", "p", "q", "r", "s", "t", "u", "v", "w", "x", "y", "z",
           "K", "S", "P", "0", "1", "2", "3", "4", "5", "6", "7", "8", "9", "_"}

\* String.prototype.trim
trim(q) ==
    LET inner == {i \in 1..Len(q) : ~IsSpace(q[i])}
    IN  IF inner = {} THEN <<>>
        ELSE SubSeq(q, CHOOSE i \in inner : \A j \in inner : i <= j,
                       CHOOSE i \in inner : \A j \in inner : i >= j)

\* .replace(/[^\w\s]/g, "")
StripNonWord(q) == SelectSeq(q, LAMBDA c : IsWord(c) \/ IsSpace(c))

\* .replace(/\s+/g, " ")
CollapseSpaces(q) ==
    LET F[i \in 0..Len(q)] ==
            IF i = 0 THEN <<>>
            ELSE IF ~IsSpace(q[i]) THEN Append(F[i - 1], q[i])
            ELSE IF i > 1 /\ IsSpace(q[i - 1]) THEN F[i - 1]
            ELSE Append(F[i - 1], " ")
    IN  F[Len(q)]

\* String.prototype.includes
Includes(text, part) ==
    \E i \in 0..(Len(text) - Len(part)) : SubSeq(text, i + 1, i + Len(part)) = part

genericIndicators ==
    {<<"b", "u", "l", "l", "e", "t", " ", "p", "o", "i", "n", "t", "s">>,
     <<"s", "u", "m", "m", "a", "r", "y">>,
     <<"o", "v", "e", "r", "v", "i", "e", "w">>,
     <<"w", "h", "a", "t", " ", "i", "s", " ", "t", "h", "i", "s", " ", "p", "d",
       "f", " ", "a", "b", "o", "u", "t">>,
     <<"w", "h", "a", "t", " ", "i", "s", " ", "t", "h", "i", "s", " ", "d", "o",
       "c", "u", "m", "e", "n", "t", " ", "a", "b", "o", "u", "t">>,
     <<"t", "e", "l", "l", " ", "m", "e", " ", "a", "b", "o", "u", "t", " ", "t",
       "h", "i", "s", " ", "p", "d", "f">>,
     <<"t", "e", "l", "l", " ", "m", "e", " ", "a", "b", "o", "u", "t", " ", "t",
       "h", "i", "s", " ", "d", "o", "c", "u", "m", "e", "n", "t">>,
     <<"e", "x", "p", "l", "a", "i", "n", " ", "t", "h", "i", "s", " ", "p", "d", "f">>,
     <<"e", "x", "p", "l", "a", "i", "n", " ", "t", "h", "i", "s", " ", "d", "o",
       "c", "u", "m", "e", "n", "t">>,
     <<"m", "a", "i", "n", " ", "p", "o", "i", "n", "t", "s">>,
     <<"k", "e", "y", " ", "p", "o", "i", "n", "t", "s">>,
     <<"s", "u", "m", "m", "a", "r", "i", "z", "e">>,
     <<"c", "o", "n", "t", "e", "n", "t">>,
     <<"t", "o", "p", "i", "c", "s">>}

\* the mutant: the query is not lower-cased
isGenericQueryCaseSensitive(query) ==
    LET cleanQuery == CollapseSpaces(StripNonWord(trim(query)))
    IN  \E indicator \in genericIndicators :
            Includes(cleanQuery, CollapseSpaces(StripNonWord(indicator)))

\* the mutant: runs of whitespace are kept as they are
isGenericQueryNoCollapse(query) ==
    LET cleanQuery == StripNonWord(trim(toLowerCase(query)))
    IN  \E indicator \in genericIndicators :
            Includes(cleanQuery, CollapseSpaces(StripNonWord(indicator)))

isGenericQuery(query) ==
    LET queryLower == trim(toLowerCase(query))
        cleanQuery == CollapseSpaces(StripNonWord(queryLower))
    IN  \E indicator \in genericIndicators :
            Includes(cleanQuery, CollapseSpaces(StripNonWord(indicator)))

-----------------------------------------------------------------------------
(* Function-level specification of isGenericQuery: a query is a            *)
(* concatenation of fragments of words, whitespace and punctuation.        *)

MaxQueryTokens == 4

QueryTokens ==
    {<<"s", "u", "m">>, <<"m", "a", "r", "y">>,
     <<"K", "e", "y">>, <<"p", "o", "i", "n", "t", "s">>,
     <<" ">>, <<"\t">>, <<"!">>, <<"_">>}

Concat(ts) ==
    LET F[i \in 0..Len(ts)] == IF i = 0 THEN <<>> ELSE F[i - 1] \o ts[i]
    IN  F[Len(ts)]

Queries(maxTokens) == UNION {{Concat(ts) : ts \in [1..n -> QueryTokens]} : n \in 0..maxTokens}

InitClassify ==
    /\ index = {} /\ now = 0 /\ ingest = <<>> /\ req = <<>> /\ resp = <<>>
    /\ calls = <<>>
    /\ fn = "classify"
    /\ arg \in Queries(MaxQueryTokens)
    /\ out = <<>>

ClassifyApply ==
    /\ fn = "classify" /\ out = <<>>
    /\ out' = <<isGenericQuery(arg)>>
    /\ UNCHANGED <<index, now, ingest, req, resp, calls, fn, arg>>

NextClassify == ClassifyApply

SpecClassify == InitClassify /\ [][NextClassify]_vars

ClassifyDone == fn = "classify" /\ Len(out) = 1

\* the words of a query: lower-cased, punctuation dropped, cut at whitespace
WordsOf(q) ==
    LET t == SelectSeq(q, LAMBDA c : IsWord(c) \/ IsSpace(c))
        F[i \in 0..Len(t)] ==
            IF i = 0 THEN [done |-> <<>>, cur |-> <<>>]
            ELSE LET p == F[i - 1]
                     c == IF t[i] \in DOMAIN LowerOf THEN LowerOf[t[i]] ELSE t[i]
                 IN  IF IsSpace(t[i])
                     THEN (IF p.cur = <<>> THEN p
                           ELSE [done |-> Append(p.done, p.cur), cur |-> <<>>])
                     ELSE [done |-> p.done, cur |-> Append(p.cur, c)]
        last == F[Len(t)]
    IN  IF last.cur = <<>> THEN last.done ELSE Append(last.done, last.cur)

\* the normalized query: its words joined by single spaces
NormalizedQuery(q) ==
    LET ws == WordsOf(q)
        F[i \in 0..Len(ws)] ==
            IF i = 0 THEN <<>>
            ELSE IF i = 1 THEN ws[1] ELSE F[i - 1] \o <<" ">> \o ws[i]
    IN  F[Len(ws)]

-----------------------------------------------------------------------------
(* The recent-document-only route: getMostRecentDocument over the matches  *)
(* of the zero-vector scan.                                                *)

\* documentTimestamps[source]: a missing entry and 0 are both falsy
DocumentTimestamp(scan, source) ==
    LET ms == MatchesOf(scan, source)
        F[i \in 0..Len(ms)] ==
            IF i = 0 THEN 0
            ELSE IF F[i - 1] = 0 \/ ms[i].timestamp > F[i - 1]
                 THEN ms[i].timestamp
                 ELSE F[i - 1]
    IN  F[Len(ms)]

\* the mutant: the first source seen is kept
getMostRecentDocumentFirstSeen(scan) ==
    IF Len(scan) = 0 THEN Null ELSE scan[1].source

getMostRecentDocument(scan) ==
    IF Len(scan) = 0 THEN Null
    ELSE LET srcs == SourcesInOrder(scan)
             F[i \in 0..Len(srcs)] ==
                 IF i = 0 THEN [mostRecentDoc |-> Null, latestTimestamp |-> 0]
                 ELSE LET timestamp == DocumentTimestamp(scan, srcs[i])
                      IN  IF timestamp > F[i - 1].latestTimestamp
                          THEN [mostRecentDoc |-> srcs[i], latestTimestamp |-> timestamp]
                          ELSE F[i - 1]
         IN  F[Len(srcs)].mostRecentDoc

-----------------------------------------------------------------------------
(* Function-level specification of the two recency resolvers: the scan of  *)
(* the recent-document-only route in any order, and the matches of a       *)
(* query-pdf request in the order of their scores.                         *)

MaxScan == 4

ScanDocs == {"a.pdf", "b.pdf", "c.pdf"}

ScanTimestamps == {50, 100, 200}

ScanInputs(maxScan) ==
    UNION {[1..n -> [source : ScanDocs, timestamp : ScanTimestamps]] : n \in 0..maxScan}

ScanMatches(items) ==
    [i \in 1..Len(items) |->
        Match(<<items[i].source, i, items[i].timestamp>>, items[i].source,
              900 - 100 * i, items[i].timestamp, i, "text")]

InitRecency ==
    /\ index = {} /\ now = 0 /\ ingest = <<>> /\ req = <<>> /\ resp = <<>>
    /\ calls = <<>>
    /\ fn \in {"scan", "matches", "generic"}
    /\ arg \in {ScanMatches(items) : items \in ScanInputs(MaxScan)}
    /\ out = <<>>

ScanApply ==
    /\ fn = "scan" /\ out = <<>>
    /\ out' = <<getMostRecentDocument(arg)>>
    /\ UNCHANGED <<index, now, ingest, req, resp, calls, fn, arg>>

MatchesApply ==
    /\ fn = "matches" /\ out = <<>>
    /\ out' = <<MostRecentOfMatches(arg)>>
    /\ UNCHANGED <<index, now, ingest, req, resp, calls, fn, arg>>

\* the response of query-pdf to a generic query the index answered with arg
GenericApply ==
    /\ fn = "generic" /\ out = <<>>
    /\ out' = <<QueryPdfResponse(TRUE, arg, now)>>
    /\ UNCHANGED <<index, now, ingest, req, resp, calls, fn, arg>>

NextRecency == ScanApply \/ MatchesApply \/ GenericApply

SpecRecency == InitRecency /\ [][NextRecency]_vars

RecencyDone == fn \in {"scan", "matches"} /\ Len(out) = 1

\* the sources of arg whose largest timestamp is the largest of all
MostRecentSources ==
    {arg[i].source : i \in {i \in 1..Len(arg) :
                                \A j \in 1..Len(arg) : arg[j].timestamp <= arg[i].timestamp}}

\* C8: the recency resolver returns the source whose maximum timestamp is
\* the greatest among the scanned items, whatever their order, and none
\* when there are no items.
C8_MostRecentIsGreatest ==
    RecencyDone =>
        IF Len(arg) = 0 THEN out[1] = Null ELSE out[1] \in MostRecentSources

\* C8 for the scan of the recent-document-only route alone
C8_ScanIsGreatest ==
    (RecencyDone /\ fn = "scan") =>
        IF Len(arg) = 0 THEN out[1] = Null ELSE out[1] \in MostRecentSources

\* the documents stamped 100, 200 and 50, scanned in that order
C8_ScanWitness ==
    /\ RecencyDone /\ fn = "scan"
    /\ [i \in 1..Len(arg) |-> arg[i].timestamp] = <<100, 200, 50>>
    /\ Cardinality({arg[i].source : i \in 1..Len(arg)}) = 3
    /\ out[1] = arg[2].source

GenericDone == fn = "generic" /\ Len(out) = 1 /\ Len(arg) > 0

NonIncreasingScores(chunks) ==
    \A i \in 1..(Len(chunks) - 1) : chunks[i].score >= chunks[i + 1].score

\* C12: for a generic query the chunks returned are chunks of one source,
\* the one with the most recent timestamp whatever the scores: at most 10
\* of them, in non-increasing score order, all isPrimary.
C12_GenericMostRecent ==
    GenericDone =>
        /\ out[1].primarySource \in MostRecentSources
        /\ \A i \in 1..Len(out[1].matchedChunks) :
              /\ out[1].matchedChunks[i].source = out[1].primarySource
              /\ out[1].matchedChunks[i].isPrimary
        /\ Len(out[1].matchedChunks) <= 10
        /\ NonIncreasingScores(out[1].matchedChunks)

-----------------------------------------------------------------------------
(* Ingestion (parse-pdf) and the index it writes to *)

\* filename.replace(/[^a-zA-Z0-9]/g, "_") on the file names of the model
SanitizedName == ("a.pdf" :> "a_pdf") @@ ("b.pdf" :> "b_pdf")

\* one vector of an upload: its id and the metadata the queries read
Vector(filename, chunkIndex, timestamp) ==
    [id |-> <<SanitizedName[filename], chunkIndex, timestamp>>,
     source |-> filename, timestamp |-> timestamp, chunkIndex |-> chunkIndex,
     text |-> "text"]

Vectors(filename, timestamp, totalChunks) ==
    {Vector(filename, chunkIndex, timestamp) : chunkIndex \in 0..(totalChunks - 1)}

\* index.namespace("pdf-data").upsert(vectors): a vector replaces the one
\* stored under its id
Upsert(stored, vectors) ==
    {v \in stored : \A w \in vectors : w.id # v.id} \cup vectors

\* A similarity query answers with the stored vectors that pass the filter,
\* scored by the index, best first, at most topK of them.
Perms(S) ==
    {p \in [1..Cardinality(S) -> S] : \A i, j \in 1..Cardinality(S) : p[i] = p[j] => i = j}

ServeScores == {50, 220, 400}

ScoreSeqs(n) ==
    {sc \in [1..n -> ServeScores] : \A i \in 1..(n - 1) : sc[i] >= sc[i + 1]}

IndexAnswers(stored, topK) ==
    {Take([i \in 1..Len(p) |->
              Match(p[i].id, p[i].source, sc[i], p[i].timestamp, p[i].chunkIndex, p[i].text)],
          topK)
        : p \in Perms(stored), sc \in ScoreSeqs(Cardinality(stored))}

\* the mutant: the filter is not applied
FilteredUnfiltered(stored, documentName) == stored

\* filter: { source: { $eq: documentName } }
Filtered(stored, documentName) == {v \in stored : v.source = documentName}

-----------------------------------------------------------------------------
(* The recent-document-only route: searchInRecentDocumentOnly and POST *)

MAX_CHUNKS == 10

MAX_CONTEXT_CHARS == 12000

\* MIN_RELEVANCE_SCORE, 0.1
MIN_RELEVANCE_SCORE == 100

\* Math.max() of no scores, -Infinity
NegInfinity == -1000000

\* the result of searchInRecentDocumentOnly when the index has answered
SearchResult(matches, documentName) ==
    [matches |-> matches, primarySource |-> documentName,
     searchStrategy |-> "recent_document_only",
     bestScore |-> IF Len(matches) = 0 THEN NegInfinity
                   ELSE SeqMax([i \in 1..Len(matches) |-> matches[i].score])]

\* the result of its catch block
SearchError(documentName) ==
    [matches |-> <<>>, primarySource |-> documentName,
     searchStrategy |-> "search_error", bestScore |-> 0]

selectOptimalChunks(matches, maxChunks, maxChars) ==
    LET ms == Take(matches, maxChunks)
    IN  [i \in 1..Len(ms) |->
            [text |-> IF ms[i].text \in {Undefined, Null, ""} THEN "" ELSE ms[i].text,
             score |-> ms[i].score, id |-> ms[i].id, source |-> ms[i].source,
             chunkIndex |-> ms[i].chunkIndex, isPrimary |-> TRUE]]

\* the mutant: without the fallback to the first five matches
RelevantMatchesNoFallback(matches) ==
    SelectSeq(matches, LAMBDA m : m.score >= MIN_RELEVANCE_SCORE)

\* the mutant: no relevance filter
RelevantMatchesAll(matches) == matches

\* the matches handed to selectOptimalChunks
RelevantMatches(matches) ==
    LET filteredMatches == SelectSeq(matches, LAMBDA m : m.score >= MIN_RELEVANCE_SCORE)
    IN  IF Len(filteredMatches) > 0 THEN filteredMatches ELSE Take(matches, 5)

\* the mutant: only the best chunk is marked primary
MatchedChunksFirstPrimary(finalChunks) ==
    [i \in 1..Len(finalChunks) |-> [finalChunks[i] EXCEPT !.isPrimary = (i = 1)]]

\* matchedChunks of the response
MatchedChunks(finalChunks) ==
    [i \in 1..Len(finalChunks) |-> [finalChunks[i] EXCEPT !.isPrimary = TRUE]]

ContextMessage(bestScore) ==
    IF bestScore >= 300 THEN "Found relevant information in your most recent document"
    ELSE IF bestScore >= 150 THEN "Found some information in your most recent document"
    ELSE "Searched your most recent document"

\* the mutant: a request without a query fails as a server error
QueryRequiredAsServerError ==
    [status |-> 500, keys |-> {"error", "details"}, error |-> "Server error"]

QueryRequired ==
    [status |-> 400, keys |-> {"error"}, error |-> "Query is required"]

ServerError ==
    [status |-> 500, keys |-> {"error", "details"}, error |-> "Server error"]

\* the mutant: an empty corpus is answered as not found
RecentOnlyNoDocumentsAsNotFound ==
    [status |-> 404, keys |-> {"error"}, error |-> "No documents found in the system"]

RecentOnlyNoDocuments ==
    [status |-> 200,
     keys |-> {"matchedChunks", "totalMatches", "primarySource", "error"},
     matchedChunks |-> <<>>, totalMatches |-> 0, primarySource |-> Null,
     error |-> "No documents found in the system"]

RecentOnlyResponse(mostRecentDoc, searchResult) ==
    IF Len(searchResult.matches) = 0
    THEN [status |-> 200,
          keys |-> {"matchedChunks", "totalMatches", "primarySource", "searchStrategy",
                    "contextMessage"},
          matchedChunks |-> <<>>, totalMatches |-> 0, primarySource |-> mostRecentDoc,
          searchStrategy |-> "recent_document_only",
          contextMessage |-> "No relevant information found in your most recent document"]
    ELSE LET finalChunks == selectOptimalChunks(RelevantMatches(searchResult.matches),
                                                MAX_CHUNKS, MAX_CONTEXT_CHARS)
         IN  [status |-> 200,
              keys |-> {"matchedChunks", "totalMatches", "primarySource", "searchStrategy",
                        "contextMessage", "sourceBreakdown", "queryInfo"},
              matchedChunks |-> MatchedChunks(finalChunks),
              totalMatches |-> Len(searchResult.matches),
              primarySource |-> mostRecentDoc,
              searchStrategy |-> "recent_document_only",
              contextMessage |-> ContextMessage(searchResult.bestScore),
              sourceBreakdown |-> <<[source |-> mostRecentDoc, chunks |-> Len(finalChunks)]>>,
              bestScore |-> searchResult.bestScore]

-----------------------------------------------------------------------------
(* Function-level specification of the three builders of matchedChunks:    *)
(* the recent-document-only route, and the generic and the specific branch *)
(* of query-pdf.  The input is the index's answer for one document, up to  *)
(* more matches than any cap; the text of its first or last match may be   *)
(* empty or missing (metadata.text is optional in PineconeMatch).          *)

\* the ids of a sequence of matches or chunks
Ids(ms) == [i \in 1..Len(ms) |-> ms[i].id]

MaxAnswer == 12

AnswerTexts == {"text", "", Undefined}

AnswerNow == 1000 * MsPerMinute

\* the score sequences of an answer, highest first: so many matches at 0.4,
\* then at 0.22, at 0.1 and at 0.05
AnswerScoreSeqs(maxAnswer) ==
    {Rep(400, c[1]) \o Rep(220, c[2]) \o Rep(100, c[3]) \o Rep(50, c[4]) :
        c \in {c \in [1..4 -> 0..maxAnswer] :
                  c[1] + c[2] + c[3] + c[4] \in 1..maxAnswer}}

AnswerInputs(maxAnswer) ==
    {[scores |-> sc, at |-> at, text |-> text] :
        sc \in AnswerScoreSeqs(maxAnswer), at \in {"first", "last"}, text \in AnswerTexts}

AnswerMatches(a) ==
    [i \in 1..Len(a.scores) |->
        Match(<<"a_pdf", i - 1, AnswerNow - 300 * MsPerMinute>>, "a.pdf", a.scores[i],
              AnswerNow - 300 * MsPerMinute, i - 1,
              IF i = (IF a.at = "first" THEN 1 ELSE Len(a.scores)) THEN a.text ELSE "text")]

InitChunks ==
    /\ index = {} /\ now = AnswerNow /\ ingest = <<>> /\ req = <<>> /\ resp = <<>>
    /\ calls = <<>>
    /\ fn \in {"recent-only", "generic", "specific"}
    /\ \E a \in AnswerInputs(MaxAnswer) : arg = AnswerMatches(a)
    /\ out = <<>>

RecentOnlyApply ==
    /\ fn = "recent-only" /\ out = <<>>
    /\ out' = <<RecentOnlyResponse("a.pdf", SearchResult(arg, "a.pdf"))>>
    /\ UNCHANGED <<index, now, ingest, req, resp, calls, fn, arg>>

GenericBranchApply ==
    /\ fn = "generic" /\ out = <<>>
    /\ out' = <<QueryPdfResponse(TRUE, arg, now)>>
    /\ UNCHANGED <<index, now, ingest, req, resp, calls, fn, arg>>

SpecificBranchApply ==
    /\ fn = "specific" /\ out = <<>>
    /\ out' = <<QueryPdfResponse(FALSE, arg, now)>>
    /\ UNCHANGED <<index, now, ingest, req, resp, calls, fn, arg>>

NextChunks == RecentOnlyApply \/ GenericBranchApply \/ SpecificBranchApply

SpecChunks == InitChunks /\ [][NextChunks]_vars

ChunksDone == fn \in {"recent-only", "generic", "specific"} /\ Len(out) = 1

RecentOnlyDone == fn = "recent-only" /\ Len(out) = 1

Relevant(ms) == SelectSeq(ms, LAMBDA m : m.score >= 100)

\* C14 as stated: every chunk the recent-document-only route returns scores
\* at least 0.1, and when matches exist but none reaches 0.1 the route
\* returns zero chunks with an explanation.
C14_OnlyRelevant ==
    RecentOnlyDone =>
        /\ \A i \in 1..Len(out[1].matchedChunks) : out[1].matchedChunks[i].score >= 100
        /\ Relevant(arg) = <<>> =>
              /\ out[1].matchedChunks = <<>>
              /\ "contextMessage" \in out[1].keys

\* C14, amended: when a match reaches 0.1 the chunks returned are the first
\* 10 of the matches that score at least 0.1; when matches exist but none
\* reaches 0.1 the route returns the first five matches with the message
\* that the matches have low confidence.
C14_RelevantOrFirstFive ==
    RecentOnlyDone =>
        /\ out[1].status = 200
        /\ IF Relevant(arg) # <<>>
           THEN /\ Ids(out[1].matchedChunks) = Ids(Take(Relevant(arg), 10))
                /\ \A i \in 1..Len(out[1].matchedChunks) :
                      out[1].matchedChunks[i].score >= 100
           ELSE /\ Ids(out[1].matchedChunks) = Ids(Take(arg, 5))
                /\ out[1].contextMessage = "Searched your most recent document"

\* more than five matches, none of them reaching 0.1: five are returned
C14_Witness ==
    /\ RecentOnlyDone /\ Len(arg) > 5 /\ Relevant(arg) = <<>>
    /\ Len(out[1].matchedChunks) = 5

\* more than ten matches reach 0.1 and one does not: ten are returned
C14_WitnessCap ==
    /\ RecentOnlyDone /\ Len(Relevant(arg)) > 10 /\ Len(Relevant(arg)) < Len(arg)
    /\ Len(out[1].matchedChunks) = 10
    /\ \E i \in 1..Len(arg) : arg[i].score = 100

\* C15: no chunk whose text is empty or missing appears in matchedChunks,
\* in the recent-document-only route and in the generic and the specific
\* branch of query-pdf; the request is answered without an error.
C15_NoEmptyText ==
    ChunksDone =>
        /\ out[1].status = 200
        /\ \A i \in 1..Len(out[1].matchedChunks) :
              out[1].matchedChunks[i].text \notin {"", Null, Undefined}

\* the part of C15 that holds: query-pdf returns no chunk of a match whose
\* text is missing, and answers without an error
C15_MissingDroppedByQueryPdf ==
    (ChunksDone /\ fn \in {"generic", "specific"}) =>
        /\ out[1].status = 200
        /\ \A i \in 1..Len(out[1].matchedChunks) :
              /\ out[1].matchedChunks[i].text \notin {Null, Undefined}
              /\ \E k \in 1..Len(arg) :
                    arg[k].id = out[1].matchedChunks[i].id /\ arg[k].text # Undefined

-----------------------------------------------------------------------------
(* The service: uploads, the clock, and one query at a time served by      *)
(* query-pdf or by the recent-document-only route.  ingest, req and resp   *)
(* hold at most one record; calls lists the collaborator calls of the      *)
(* request being served.  A response is taken by the caller before the     *)
(* next step.                                                              *)

MaxVectors == 3

MaxTicks == 1

\* Date.now() when the service starts, ms
Epoch == 1000000

TickMs == 4 * MsPerMinute

Files == {"a.pdf", "b.pdf"}

ChunkCounts == {1, 2}

QuerySummary == <<"s", "u", "m", "m", "a", "r", "y">>

QueryKey == <<"K", "e", "y">>

ServeQueries == {<<>>, QuerySummary, QueryKey}

Request(route, query, pc, fault, scanned, recentDoc, matches) ==
    [route |-> route, query |-> query, pc |-> pc, fault |-> fault,
     scanned |-> scanned, recentDoc |-> recentDoc, matches |-> matches]

Init ==
    /\ index = {} /\ now = Epoch /\ ingest = <<>> /\ req = <<>> /\ resp = <<>>
    /\ calls = <<>>
    /\ fn = "serve" /\ arg = <<>> /\ out = <<>>

Tick ==
    /\ fn = "serve" /\ resp = <<>>
    /\ now < Epoch + MaxTicks * TickMs
    /\ now' = now + TickMs
    /\ UNCHANGED <<index, ingest, req, resp, calls, fn, arg, out>>

\* the mutant: the vectors are stored as soon as the upload is received
IndexWhileEmbeddingEager(stored, vectors) == Upsert(stored, vectors)

\* the "pdf-data" namespace while parse-pdf parses, splits and embeds: the
\* handler makes no call to the index before its single upsert
IndexWhileEmbedding(stored, vectors) == stored

\* parse-pdf up to the read of Date.now()
IngestStart ==
    /\ fn = "serve" /\ resp = <<>> /\ ingest = <<>>
    /\ \E filename \in Files, totalChunks \in ChunkCounts :
          /\ Cardinality(index) + totalChunks <= MaxVectors
          /\ ingest' = <<[filename |-> filename, timestamp |-> now,
                          totalChunks |-> totalChunks]>>
          /\ index' = IndexWhileEmbedding(index, Vectors(filename, now, totalChunks))
    /\ UNCHANGED <<now, req, resp, calls, fn, arg, out>>

\* parse-pdf from the embedding of the chunks to the upsert, which may fail
IngestUpsert ==
    /\ fn = "serve" /\ resp = <<>> /\ ingest # <<>>
    /\ \E ok \in BOOLEAN :
          index' = IF ok
                   THEN Upsert(index, Vectors(ingest[1].filename, ingest[1].timestamp,
                                              ingest[1].totalChunks))
                   ELSE index
    /\ ingest' = <<>>
    /\ UNCHANGED <<now, req, resp, calls, fn, arg, out>>

\* query-pdf POST
QueryPdf ==
    /\ fn = "serve" /\ resp = <<>> /\ req = <<>>
    /\ \E query \in ServeQueries, fault \in {"none", "stats", "embed", "query"} :
          IF query = <<>>
          THEN /\ fault = "none"
               /\ req' = <<Request("query-pdf", query, "done", fault, {}, Null, <<>>)>>
               /\ calls' = <<>>
               /\ resp' = <<QueryRequired>>
          ELSE IF fault # "none"
          THEN /\ req' = <<Request("query-pdf", query, "done", fault, {}, Null, <<>>)>>
               /\ calls' = IF fault = "stats" THEN <<"stats">>
                           ELSE IF fault = "embed" THEN <<"stats", "embed">>
                           ELSE <<"stats", "embed", "global">>
               /\ resp' = <<ServerError>>
          ELSE \E matches \in IndexAnswers(index, 25) :
               /\ req' = <<Request("query-pdf", query, "done", fault, index, Null, matches)>>
               /\ calls' = <<"stats", "embed", "global">>
               /\ resp' = <<QueryPdfResponse(isGenericQuery(query), matches, now)>>
    /\ UNCHANGED <<index, now, ingest, fn, arg, out>>

\* the zero-vector query of getMostRecentDocument: every score is 0
ZeroVectorAnswers(stored, topK) ==
    {Take([i \in 1..Len(p) |->
              Match(p[i].id, p[i].source, 0, p[i].timestamp, p[i].chunkIndex, p[i].text)],
          topK)
        : p \in Perms(stored)}

\* the recent-document-only POST up to the answer of getMostRecentDocument
RecentOnlyResolve ==
    /\ fn = "serve" /\ resp = <<>> /\ req = <<>>
    /\ \E query \in ServeQueries, fault \in {"none", "scan"} :
          IF query = <<>>
          THEN /\ fault = "none"
               /\ req' = <<Request("recent-only", query, "done", fault, {}, Null, <<>>)>>
               /\ calls' = <<>>
               /\ resp' = <<QueryRequired>>
          ELSE \E scan \in ZeroVectorAnswers(index, 100) :
               LET mostRecentDoc == IF fault = "scan" THEN Null
                                    ELSE getMostRecentDocument(scan)
               IN  /\ calls' = <<"scan">>
                   /\ IF mostRecentDoc = Null
                      THEN /\ req' = <<Request("recent-only", query, "done", fault, index,
                                               Null, <<>>)>>
                           /\ resp' = <<RecentOnlyNoDocuments>>
                      ELSE /\ req' = <<Request("recent-only", query, "search", fault, index,
                                               mostRecentDoc, <<>>)>>
                           /\ resp' = <<>>
    /\ UNCHANGED <<index, now, ingest, fn, arg, out>>

\* the recent-document-only POST from searchInRecentDocumentOnly on
RecentOnlySearch ==
    /\ fn = "serve" /\ resp = <<>> /\ req # <<>> /\ req[1].pc = "search"
    /\ \E fault \in {"none", "embed", "query"} :
          \E matches \in IF fault = "none"
                         THEN IndexAnswers(Filtered(index, req[1].recentDoc), 2 * MAX_CHUNKS)
                         ELSE {<<>>} :
             LET searchResult == IF fault = "none"
                                 THEN SearchResult(matches, req[1].recentDoc)
                                 ELSE SearchError(req[1].recentDoc)
             IN  /\ req' = <<[req[1] EXCEPT !.pc = "done", !.fault = fault,
                                            !.matches = searchResult.matches]>>
                 /\ calls' = calls \o (IF fault = "embed" THEN <<"embed">>
                                       ELSE <<"embed", "filtered">>)
                 /\ resp' = <<RecentOnlyResponse(req[1].recentDoc, searchResult)>>
    /\ UNCHANGED <<index, now, ingest, fn, arg, out>>

\* the keys of queryInfo in the response of query-pdf
QueryInfoKeys == {"original", "isGeneric", "strategy", "enhanced"}

\* queryInfo?.analysis?.isGeneric, read by get-answer from the response r of
\* query-pdf: undefined, hence falsy, when queryInfo has no key analysis
QueryInfoAnalysisIsGeneric(r) ==
    IF "analysis" \in QueryInfoKeys THEN r.isGeneric ELSE FALSE

\* the body of get-answer's POST once query-pdf has answered with r and,
\* when it is asked, the generation collaborator has answered or failed.
\* promptGeneric tells which of the two lines about the question the prompt
\* carries: queryInfo.analysis is a key query-pdf never sets.
GetAnswerResponse(r, generated) ==
    IF r.status # 200
    THEN [status |-> 500, keys |-> {"error", "details"}, error |-> "Internal Server Error"]
    ELSE IF Len(r.matchedChunks) = 0
    THEN [status |-> 200, keys |-> {"answer", "matchedChunks", "primarySource"},
          answer |-> "I couldn't find any relevant information in the uploaded PDFs",
          matchedChunks |-> <<>>, primarySource |-> Null]
    ELSE IF ~generated
    THEN [status |-> 500, keys |-> {"error", "details"}, error |-> "Internal Server Error"]
    ELSE [status |-> 200,
          keys |-> {"answer", "primarySource", "sourcesUsed", "matchedChunks", "queryInfo",
                    "totalDocumentsFound", "debugInfo"},
          answer |-> "generated", matchedChunks |-> r.matchedChunks,
          primarySource |-> r.primarySource,
          promptGeneric |-> QueryInfoAnalysisIsGeneric(r),
          totalDocumentsFound |-> Len(r.sourceBreakdown)]

\* get-answer POST, with the query-pdf request it makes
GetAnswer ==
    /\ fn = "serve" /\ resp = <<>> /\ req = <<>>
    /\ \E question \in ServeQueries :
          IF question = <<>>
          THEN /\ req' = <<Request("get-answer", question, "done", "none", {}, Null, <<>>)>>
               /\ calls' = <<>>
               /\ resp' = <<[status |-> 400, keys |-> {"error"},
                             error |-> "Question is required"]>>
          ELSE \/ \E fault \in {"stats", "embed", "query"} :
                     /\ req' = <<Request("get-answer", question, "done", fault, {}, Null,
                                         <<>>)>>
                     /\ calls' = <<"fetch">> \o (IF fault = "stats" THEN <<"stats">>
                                                 ELSE IF fault = "embed"
                                                 THEN <<"stats", "embed">>
                                                 ELSE <<"stats", "embed", "global">>)
                     /\ resp' = <<GetAnswerResponse(ServerError, FALSE)>>
               \/ \E matches \in IndexAnswers(index, 25) :
                     LET r == QueryPdfResponse(isGenericQuery(question), matches, now)
                     IN  \E fault \in {"none", "generate"} :
                            /\ fault = "generate" => Len(r.matchedChunks) > 0
                            /\ req' = <<Request("get-answer", question, "done", fault, index,
                                                Null, matches)>>
                            /\ calls' = <<"fetch", "stats", "embed", "global">>
                                            \o (IF Len(r.matchedChunks) > 0
                                                THEN <<"generate">> ELSE <<>>)
                            /\ resp' = <<GetAnswerResponse(r, fault # "generate")>>
    /\ UNCHANGED <<index, now, ingest, fn, arg, out>>

\* the caller takes the response
Respond ==
    /\ fn = "serve" /\ resp # <<>>
    /\ resp' = <<>> /\ req' = <<>> /\ calls' = <<>>
    /\ UNCHANGED <<index, now, ingest, fn, arg, out>>

Next ==
    \/ Tick
    \/ IngestStart
    \/ IngestUpsert
    \/ QueryPdf
    \/ RecentOnlyResolve
    \/ RecentOnlySearch
    \/ GetAnswer
    \/ Respond

Spec == Init /\ [][Next]_vars

-----------------------------------------------------------------------------
(* Claims about the service *)

Served(route) == fn = "serve" /\ Len(resp) = 1 /\ req[1].route = route

\* the recent-document-only route has its answer from the filtered query
Searched ==
    /\ Served("recent-only")
    /\ req[1].recentDoc # Null /\ req[1].fault = "none" /\ Len(req[1].matches) > 0

Specific == req[1].query # <<>> /\ ~isGenericQuery(req[1].query)

Generic == req[1].query # <<>> /\ isGenericQuery(req[1].query)

BestScoreInRecentDoc == SeqMax([i \in 1..Len(req[1].matches) |-> req[1].matches[i].score])

AllFrom(chunks, source) == \A i \in 1..Len(chunks) : chunks[i].source = source

\* the sources of the vectors the request found in the index that carry
\* the largest timestamp
NewestScanned ==
    {v.source : v \in {v \in req[1].scanned :
                          \A w \in req[1].scanned : w.timestamp <= v.timestamp}}

C4_SufficientTag ==
    (Searched /\ Specific /\ BestScoreInRecentDoc >= 200) =>
        /\ \A i \in 1..Len(calls) : calls[i] # "global"
        /\ resp[1].searchStrategy = "recent_document_sufficient"
        /\ resp[1].primarySource = req[1].recentDoc
        /\ \A i \in 1..Len(resp[1].matchedChunks) : resp[1].matchedChunks[i].isPrimary

\* C4, amended: the same, with the tag recent_document_only.
C4_AcceptedRecentOnly ==
    (Searched /\ Specific /\ BestScoreInRecentDoc >= 200) =>
        /\ \A i \in 1..Len(calls) : calls[i] # "global"
        /\ resp[1].status = 200
        /\ resp[1].searchStrategy = "recent_document_only"
        /\ resp[1].primarySource = req[1].recentDoc
        /\ req[1].recentDoc \in NewestScanned
        /\ Len(resp[1].matchedChunks) >= 1
        /\ \A i \in 1..Len(resp[1].matchedChunks) : resp[1].matchedChunks[i].isPrimary

\* one document, best score 0.4, a second chunk at 0.22
C4_Witness ==
    /\ Searched /\ Specific /\ BestScoreInRecentDoc = 400
    /\ \A v \in index : v.source = req[1].recentDoc
    /\ Len(resp[1].matchedChunks) = 2
    /\ resp[1].matchedChunks[2].score = 220

\* a generic query answered from the index: by the recent-document-only
\* route once it has resolved a document, by query-pdf once the index has
\* answered
GenericServed ==
    /\ fn = "serve" /\ Len(resp) = 1 /\ Generic
    /\ \/ req[1].route = "recent-only" /\ req[1].recentDoc # Null
       \/ req[1].route = "query-pdf" /\ req[1].fault = "none"

NoneFoundMessage == "No relevant information found in your most recent document"

\* C5 as stated: a generic query issues the query filtered to the most
\* recent document and never a global one, every chunk returned comes from
\* that document, the answer is tagged recent_document_only, and zero
\* matches end in zero chunks with the message that nothing relevant was
\* found in the most recent document.
C5_GenericFilteredOnly ==
    GenericServed =>
        /\ \A i \in 1..Len(calls) : calls[i] # "global"
        /\ resp[1].status = 200
        /\ \E doc \in NewestScanned : AllFrom(resp[1].matchedChunks, doc)
        /\ IF req[1].route = "recent-only"
           THEN /\ resp[1].searchStrategy = "recent_document_only"
                /\ Len(req[1].matches) = 0 =>
                      /\ resp[1].matchedChunks = <<>>
                      /\ resp[1].contextMessage = NoneFoundMessage
           ELSE /\ resp[1].strategy = "recent_document_only"
                /\ Len(req[1].matches) = 0 =>
                      /\ resp[1].matchedChunks = <<>>
                      /\ resp[1].message = NoneFoundMessage

\* C5, amended: in the recent-document-only route a generic query issues
\* the scan and the query filtered to the most recent document and no
\* other query, every chunk comes from that document, the tag is
\* recent_document_only and zero matches end in zero chunks with the
\* message; in query-pdf a generic query issues one global query and no
\* filtered one, every chunk comes from the one document the answer names,
\* the tag is recent_document, and zero matches end in zero chunks without
\* a message.
C5_GenericPerRoute ==
    GenericServed =>
        /\ resp[1].status = 200
        /\ IF req[1].route = "recent-only"
           THEN /\ calls \in {<<"scan", "embed", "filtered">>, <<"scan", "embed">>}
                /\ req[1].fault = "none" => calls = <<"scan", "embed", "filtered">>
                /\ req[1].recentDoc \in NewestScanned
                /\ resp[1].primarySource = req[1].recentDoc
                /\ AllFrom(resp[1].matchedChunks, req[1].recentDoc)
                /\ resp[1].searchStrategy = "recent_document_only"
                /\ IF Len(req[1].matches) = 0
                   THEN /\ resp[1].matchedChunks = <<>>
                        /\ resp[1].contextMessage = NoneFoundMessage
                   ELSE Len(resp[1].matchedChunks) >= 1
           ELSE /\ calls = <<"stats", "embed", "global">>
                /\ IF Len(req[1].matches) = 0
                   THEN /\ resp[1].matchedChunks = <<>>
                        /\ "message" \notin resp[1].keys
                        /\ "contextMessage" \notin resp[1].keys
                   ELSE /\ resp[1].strategy = "recent_document"
                        /\ resp[1].primarySource \in {v.source : v \in req[1].scanned}
                        /\ Len(resp[1].matchedChunks) >= 1
                        /\ AllFrom(resp[1].matchedChunks, resp[1].primarySource)

\* a generic query in the recent-document-only route, answered with both
\* chunks of the most recent document while an older document is stored
C5_Witness ==
    /\ GenericServed /\ req[1].route = "recent-only" /\ req[1].fault = "none"
    /\ \E v \in index : v.source # req[1].recentDoc
    /\ Len(resp[1].matchedChunks) = 2

\* a generic query in the recent-document-only route that ends without matches
C5_WitnessNoMatches ==
    /\ GenericServed /\ req[1].route = "recent-only"
    /\ Len(req[1].matches) = 0 /\ "filtered" \in Range(calls)

\* a generic query in query-pdf answered from the newer of two documents
C5_WitnessQueryPdf ==
    /\ GenericServed /\ req[1].route = "query-pdf"
    /\ \E v \in index : v.source # resp[1].primarySource
    /\ Len(resp[1].matchedChunks) >= 1

\* the request found the corpus empty: the scan of the recent-document-only
\* route, or the global query of query-pdf, answered without a match
EmptyCorpusServed ==
    /\ fn = "serve" /\ Len(resp) = 1
    /\ req[1].route \in {"recent-only", "query-pdf"}
    /\ req[1].query # <<>> /\ req[1].fault = "none" /\ req[1].pc = "done"
    /\ req[1].recentDoc = Null /\ req[1].scanned = {}

-----------------------------------------------------------------------------
(* Failures of the collaborators, requests without a query, and the        *)
(* outcomes in which nothing was found.                                    *)

\* a request has its response
Answered == fn = "serve" /\ Len(resp) = 1

\* the response is an error to the caller
IsError(r) == r.status >= 400

\* C16: when the embedding of the query fails, the response is an error: it
\* is never an empty result nor one that says nothing relevant was found.
C16_EmbeddingFailureSurfaced ==
    (Answered /\ req[1].fault = "embed") => IsError(resp[1])

\* query-pdf and get-answer do surface the failure of the embedding
C16_SurfacedByQueryPdf ==
    (Answered /\ req[1].fault = "embed" /\ req[1].route \in {"query-pdf", "get-answer"})
        => /\ resp[1].status = 500
           /\ calls[Len(calls)] = "embed"

\* the recent-document-only route answers a failed embedding as no match
C16_SwallowedByRecentOnly ==
    (Answered /\ req[1].fault = "embed" /\ req[1].route = "recent-only")
        => resp[1] = RecentOnlyResponse(req[1].recentDoc,
                                        SearchResult(<<>>, req[1].recentDoc))

\* a call of the vector index failed while the request was served
IndexFailed == Answered /\ req[1].fault \in {"stats", "scan", "query"}

\* what the recent-document-only route answers when the corpus is empty and
\* when the filtered query matches nothing
RecentOnlyEmptyResults(recentDoc) ==
    {RecentOnlyNoDocuments, RecentOnlyResponse(recentDoc, SearchResult(<<>>, recentDoc))}

\* C17: the response to a request during which the vector index failed
\* differs from the response to an empty corpus and from the response to a
\* query that matches nothing.
C17_IndexFailureDistinct ==
    IndexFailed =>
        IF req[1].route = "recent-only"
        THEN resp[1] \notin RecentOnlyEmptyResults(req[1].recentDoc)
        ELSE resp[1].status # 200

\* query-pdf and get-answer answer a failure of the index with status 500
C17_DistinctInQueryPdf ==
    (IndexFailed /\ req[1].route \in {"query-pdf", "get-answer"}) => resp[1].status = 500

\* C18: when a call of the vector index fails, the request is answered as
\* for an empty corpus: status 200, no chunk, and no detail of the error.
C18_IndexFailureAsNoDocuments ==
    (IndexFailed /\ req[1].route \in {"recent-only", "query-pdf"}) =>
        /\ resp[1].status = 200
        /\ resp[1].matchedChunks = <<>>
        /\ "details" \notin resp[1].keys

\* getMostRecentDocument does answer a failed scan as an empty corpus
C18_ScanFailureAsNoDocuments ==
    (IndexFailed /\ req[1].fault = "scan") => resp[1] = RecentOnlyNoDocuments

\* C19: a request without a query text is answered with status 400 and an
\* error, and no call is made for it: no index statistics, no embedding, no
\* query of the index, no fetch of query-pdf.
C19_EmptyQueryRejected ==
    (Answered /\ req[1].query = <<>>) =>
        /\ resp[1].status = 400
        /\ resp[1].keys = {"error"}
        /\ calls = <<>>

\* get-answer rejected a request without a question while documents were stored
C19_Witness ==
    /\ Served("get-answer") /\ req[1].query = <<>>
    /\ index # {} /\ resp[1].status = 400 /\ calls = <<>>

\* query-pdf and the recent-document-only route rejected such a request
C19_WitnessQueryPdf ==
    /\ Served("query-pdf") /\ req[1].query = <<>> /\ index # {} /\ resp[1].status = 400

C19_WitnessRecentOnly ==
    /\ Served("recent-only") /\ req[1].query = <<>> /\ index # {} /\ resp[1].status = 400

\* no collaborator failed, and the request found no document, no match, or
\* no match that is relevant
NotFoundServed ==
    /\ Answered /\ req[1].query # <<>> /\ req[1].fault = "none" /\ req[1].pc = "done"
    /\ IF req[1].route = "recent-only"
       THEN \/ req[1].recentDoc = Null
            \/ \A i \in 1..Len(req[1].matches) : req[1].matches[i].score < MIN_RELEVANCE_SCORE
       ELSE QueryPdfResponse(isGenericQuery(req[1].query), req[1].matches, now)
                .matchedChunks = <<>>

\* the response carries a message for the caller
HasMessage(r) == r.keys \cap {"error", "contextMessage", "answer", "message"} # {}

\* C20: when nothing was found the response has status 200 and carries a
\* message.
C20_NotFoundWithMessage ==
    NotFoundServed => /\ resp[1].status = 200
                      /\ HasMessage(resp[1])

\* nothing found is never an error status, and the recent-document-only
\* route and get-answer say so in a message
C20_NotFoundNeverAnError ==
    NotFoundServed => /\ resp[1].status = 200
                      /\ req[1].route # "query-pdf" => HasMessage(resp[1])

-----------------------------------------------------------------------------
(* Requests served concurrently.  Each request is a chain of steps between *)
(* its awaits, and the steps of the requests interleave.  What a handler   *)
(* keeps in its own constants is held in the request's record; what the    *)
(* modules keep at top level is shared: the extractor of                   *)
(* lib/generateEmbeddings.ts, which debug-ingest loads on first use.  The  *)
(* contents of the "pdf-data" namespace do not change while the requests   *)
(* are served; debug-ingest writes to the default namespace of its index.  *)

NumRequests == 2

ConcRoutes == {"query-pdf", "recent-only", "debug-ingest"}

ConcQueries == {QuerySummary, QueryKey}

\* the contents of the index the requests run against
ConcIndexes ==
    {{}, Vectors("a.pdf", Epoch, 1),
     Vectors("a.pdf", Epoch, 1) \cup Vectors("b.pdf", Epoch + TickMs, 1)}

ConcNow == Epoch + 2 * TickMs

\* let extractor: no pipeline, written by no request
NoExtractor == [value |-> Undefined, writer |-> 0]

Idle == [route |-> "", query |-> <<>>, pc |-> "idle", recentDoc |-> Null, readFrom |-> {}]

\* the mutant: the query is kept in one slot for all requests
QueryOfFirst(rs, self) == rs[1].query

\* const query = body.query: the query of the request being served
QueryOf(rs, self) == rs[self].query

InitConcurrent ==
    /\ index \in ConcIndexes /\ now = ConcNow /\ ingest = <<>> /\ calls = <<>>
    /\ req = [i \in 1..NumRequests |-> Idle]
    /\ resp = [i \in 1..NumRequests |-> <<>>]
    /\ fn = "concurrent" /\ arg = NoExtractor /\ out = {}

\* a request arrives; its body is parsed
Receive(self) ==
    /\ fn = "concurrent" /\ req[self].pc = "idle"
    /\ \E route \in ConcRoutes, query \in ConcQueries :
          req' = [req EXCEPT ![self] = [Idle EXCEPT !.route = route, !.query = query,
                                                   !.pc = "started"]]
    /\ UNCHANGED <<index, now, ingest, resp, calls, fn, arg, out>>

\* query-pdf from describeIndexStats to the response
ConcQueryPdf(self) ==
    /\ fn = "concurrent" /\ req[self].pc = "started" /\ req[self].route = "query-pdf"
    /\ \E matches \in IndexAnswers(index, 25) :
          resp' = [resp EXCEPT ![self] =
                      <<QueryPdfResponse(isGenericQuery(QueryOf(req, self)), matches, now)>>]
    /\ req' = [req EXCEPT ![self].pc = "done"]
    /\ UNCHANGED <<index, now, ingest, calls, fn, arg, out>>

\* the recent-document-only route up to the answer of getMostRecentDocument
ConcResolve(self) ==
    /\ fn = "concurrent" /\ req[self].pc = "started" /\ req[self].route = "recent-only"
    /\ \E scan \in ZeroVectorAnswers(index, 100) :
          LET mostRecentDoc == getMostRecentDocument(scan)
          IN  IF mostRecentDoc = Null
              THEN /\ req' = [req EXCEPT ![self].pc = "done"]
                   /\ resp' = [resp EXCEPT ![self] = <<RecentOnlyNoDocuments>>]
              ELSE /\ req' = [req EXCEPT ![self].pc = "search",
                                         ![self].recentDoc = mostRecentDoc]
                   /\ resp' = resp
    /\ UNCHANGED <<index, now, ingest, calls, fn, arg, out>>

\* the recent-document-only route from searchInRecentDocumentOnly on
ConcSearch(self) ==
    /\ fn = "concurrent" /\ req[self].pc = "search"
    /\ \E matches \in IndexAnswers(Filtered(index, req[self].recentDoc), 2 * MAX_CHUNKS) :
          resp' = [resp EXCEPT ![self] =
                      <<RecentOnlyResponse(req[self].recentDoc,
                                           SearchResult(matches, req[self].recentDoc))>>]
    /\ req' = [req EXCEPT ![self].pc = "done"]
    /\ UNCHANGED <<index, now, ingest, calls, fn, arg, out>>

\* generateEmbeddings of debug-ingest: if (!extractor)
DebugIngestTest(self) ==
    /\ fn = "concurrent" /\ req[self].pc = "started" /\ req[self].route = "debug-ingest"
    /\ req' = [req EXCEPT ![self].pc = IF arg.value = Undefined THEN "loading" ELSE "embed",
                          ![self].readFrom = @ \cup ({arg.writer} \ {0})]
    /\ UNCHANGED <<index, now, ingest, resp, calls, fn, arg, out>>

\* extractor = await pipeline(...)
DebugIngestLoad(self) ==
    /\ fn = "concurrent" /\ req[self].pc = "loading"
    /\ arg' = [value |-> "pipeline", writer |-> self]
    /\ req' = [req EXCEPT ![self].pc = "embed"]
    /\ UNCHANGED <<index, now, ingest, resp, calls, fn, out>>

\* debug-ingest from the embedding of the chunks to the response: the
\* vectors go to the default namespace under the ids chunk-0, chunk-1, ...
DebugIngestStore(self) ==
    /\ fn = "concurrent" /\ req[self].pc = "embed"
    /\ req' = [req EXCEPT ![self].pc = "done",
                          ![self].readFrom = @ \cup ({arg.writer} \ {0})]
    /\ out' = out \cup {<<"chunk", 0>>}
    /\ resp' = [resp EXCEPT ![self] =
                   <<[status |-> 200, keys |-> {"message", "chunks"},
                      message |-> "Vectors embedded and stored in Pinecone"]>>]
    /\ UNCHANGED <<index, now, ingest, calls, fn, arg>>

NextConcurrent ==
    \E self \in 1..NumRequests :
        \/ Receive(self)
        \/ ConcQueryPdf(self)
        \/ ConcResolve(self)
        \/ ConcSearch(self)
        \/ DebugIngestTest(self)
        \/ DebugIngestLoad(self)
        \/ DebugIngestStore(self)

SpecConcurrent == InitConcurrent /\ [][NextConcurrent]_vars

\* what a query can be answered when it is served alone against the index
AloneQueryPdf(query) ==
    {QueryPdfResponse(isGenericQuery(query), matches, now) :
        matches \in IndexAnswers(index, 25)}

AloneRecentOnly(query) ==
    UNION {LET mostRecentDoc == getMostRecentDocument(scan)
           IN  IF mostRecentDoc = Null
               THEN {RecentOnlyNoDocuments}
               ELSE {RecentOnlyResponse(mostRecentDoc, SearchResult(matches, mostRecentDoc)) :
                        matches \in IndexAnswers(Filtered(index, mostRecentDoc),
                                                 2 * MAX_CHUNKS)}
             : scan \in ZeroVectorAnswers(index, 100)}

ConcAnswered(self) == fn = "concurrent" /\ resp[self] # <<>>

IsQuery(self) == req[self].route \in {"query-pdf", "recent-only"}

C21_WitnessExtractor ==
    /\ fn = "concurrent" /\ \E self \in 1..NumRequests : req[self].readFrom \ {self} # {}

-----------------------------------------------------------------------------
(* Ingestion concurrent with queries *)

\* the vectors of the upload in flight
PendingVectors ==
    Vectors(ingest[1].filename, ingest[1].timestamp, ingest[1].totalChunks)

StoredIds == {v.id : v \in index}

\* a query route has answered with chunks or with a primary source
QueryAnswered ==
    /\ Answered /\ req[1].route \in {"query-pdf", "recent-only"}
    /\ resp[1].status = 200

\* C22: the index changes only in the step in which the upsert of the upload
\* in flight is confirmed; every chunk a query returns is a stored vector,
\* and the document the recent-document-only route resolves is the newest of
\* the stored ones, the upload in flight left aside.
C22_VisibleAfterUpsert ==
    /\ [](QueryAnswered =>
            /\ \A i \in 1..Len(resp[1].matchedChunks) :
                  resp[1].matchedChunks[i].id \in StoredIds
            /\ (req[1].route = "recent-only" /\ req[1].recentDoc # Null) =>
                  req[1].recentDoc \in NewestScanned)
    /\ [][index' # index =>
            /\ ingest # <<>> /\ ingest' = <<>>
            /\ index' = Upsert(index, PendingVectors)]_vars

\* while b.pdf was being uploaded, the recent-document-only route resolved
\* a.pdf, stored before, and answered with a chunk of it
C22_Witness ==
    /\ QueryAnswered /\ req[1].route = "recent-only"
    /\ ingest # <<>> /\ ingest[1].filename = "b.pdf" /\ ingest[1].timestamp > Epoch
    /\ PendingVectors \cap index = {}
    /\ req[1].recentDoc = "a.pdf" /\ Len(resp[1].matchedChunks) >= 1

-----------------------------------------------------------------------------
(* The response of query-pdf to a specific query: sourceBreakdown and      *)
(* primarySource (under SpecSelect)                                        *)

\* C23: for a specific query with at least one match, sourceBreakdown has
\* one entry per ranked source, with its source, in ranked order.
C23_BreakdownPerRankedSource ==
    SpecificAnswered =>
        /\ Len(out[1].sourceBreakdown) = Len(RankedLog)
        /\ \A i \in 1..Len(RankedLog) :
              out[1].sourceBreakdown[i].source = RankedLog[i].source

\* what the response carries instead: the list declared at line 142, which
\* the specific branch never assigns
C23_BreakdownEmpty ==
    SpecificAnswered => out[1].sourceBreakdown = <<>>

\* C29: for a specific query with at least one match that carries string
\* text, the response names a primary source and returns at least one chunk.
C29_PrimaryAndChunk ==
    (SpecificAnswered /\ \E i \in 1..Len(arg.matches) : TextIsString(arg.matches[i])) =>
        /\ out[1].primarySource \notin {"", Null}
        /\ Len(Returned) >= 1

\* a primary source is always named, and a chunk is returned whenever the
\* best score of the top-ranked source is above 0
C29_ChunkWhenPositive ==
    SpecificAnswered =>
        /\ out[1].primarySource = TopRanked.source
        /\ TopRanked.maxScore > 0 => Len(Returned) >= 1

-----------------------------------------------------------------------------
(* The size of the context.  A text is named by its length here: "t400" is *)
(* a text of 400 characters, the largest chunk parse-pdf stores (chunkSize *)
(* 400); "t1201" and "t12001" are texts of vectors written by other means. *)

\* String.prototype.length on the strings of this specification
StringLength ==
    ("" :> 0) @@ ("text" :> 4) @@ ("t400" :> 400) @@ ("t1201" :> 1201)
        @@ ("t12001" :> 12001) @@ ("a.pdf" :> 5)

MaxBudgetMatches == 12

BudgetNow == 1000 * MsPerMinute

BudgetLongTexts == {"t1201", "t12001"}

BudgetShortTexts == {"text", "t400"}

\* so many matches, the first ones with the long text
BudgetInputs(maxMatches) ==
    UNION {{[n |-> n, long |-> k, longText |-> lt, shortText |-> st] :
               k \in 0..n, lt \in BudgetLongTexts, st \in BudgetShortTexts}
             : n \in 1..maxMatches}

BudgetMatches(b) ==
    [i \in 1..b.n |->
        Match(<<"a_pdf", i - 1, BudgetNow - 300 * MsPerMinute>>, "a.pdf", 400,
              BudgetNow - 300 * MsPerMinute, i - 1,
              IF i <= b.long THEN b.longText ELSE b.shortText)]

\* finalChunks.reduce((sum, c) => sum + c.text.length, 0)
TotalChars(chunks) ==
    LET F[i \in 0..Len(chunks)] ==
            IF i = 0 THEN 0 ELSE F[i - 1] + StringLength[chunks[i].text]
    IN  F[Len(chunks)]

\* contextWithSources.length of get-answer: "[From: " source "]\n" text for
\* every chunk, joined by "\n\n---\n\n"
ContextLength(chunks) ==
    LET F[i \in 0..Len(chunks)] ==
            IF i = 0 THEN 0
            ELSE F[i - 1] + 7 + StringLength[chunks[i].source] + 2
                          + StringLength[chunks[i].text]
                          + (IF i > 1 THEN 7 ELSE 0)
    IN  F[Len(chunks)]

InitBudget ==
    /\ index = {} /\ now = BudgetNow /\ ingest = <<>> /\ req = <<>> /\ resp = <<>>
    /\ calls = <<>>
    /\ fn \in {"budget-recent-only", "budget-get-answer"}
    /\ \E b \in BudgetInputs(MaxBudgetMatches) : arg = BudgetMatches(b)
    /\ out = <<>>

\* the recent-document-only route on the answer of the filtered query
BudgetRecentOnly ==
    /\ fn = "budget-recent-only" /\ out = <<>>
    /\ LET r == RecentOnlyResponse("a.pdf", SearchResult(arg, "a.pdf"))
       IN  out' = <<[chunks |-> r.matchedChunks, chars |-> TotalChars(r.matchedChunks)]>>
    /\ UNCHANGED <<index, now, ingest, req, resp, calls, fn, arg>>

\* get-answer on the answer of query-pdf to a generic or a specific query
BudgetGetAnswer ==
    /\ fn = "budget-get-answer" /\ out = <<>>
    /\ \E isGeneric \in BOOLEAN :
          LET r == QueryPdfResponse(isGeneric, arg, now)
          IN  out' = <<[chunks |-> r.matchedChunks,
                        chars |-> ContextLength(r.matchedChunks)]>>
    /\ UNCHANGED <<index, now, ingest, req, resp, calls, fn, arg>>

NextBudget == BudgetRecentOnly \/ BudgetGetAnswer

SpecBudget == InitBudget /\ [][NextBudget]_vars

BudgetDone == fn \in {"budget-recent-only", "budget-get-answer"} /\ Len(out) = 1

C24_NothingDropped ==
    (BudgetDone /\ fn = "budget-recent-only") =>
        Len(out[1].chunks) = Min(Len(arg), MAX_CHUNKS)

\* with texts of at most 400 characters the context stays within the budget
C24_WithinBudgetForStoredChunks ==
    (BudgetDone /\ \A i \in 1..Len(arg) : StringLength[arg[i].text] <= 400)
        => out[1].chars <= MAX_CONTEXT_CHARS

-----------------------------------------------------------------------------
(* isGenericQuery on a query and on a variant of it: one letter in the     *)
(* other case, one punctuation character inserted, or one deleted.         *)

MaxEditTokens == 2

EditTokens ==
    {<<"s", "u", "m">>, <<"m", "a", "r", "y">>, <<"K", "e", "y", " ">>,
     <<"p", "o", "i", "n", "t", "s">>, <<" ">>, <<"!">>, <<"_">>}

\* punctuation characters: ASCII punctuation, the underscore among them
Punctuation == {"!", "-", "_"}

UpperOf == [c \in {LowerOf[u] : u \in DOMAIN LowerOf} |->
               CHOOSE u \in DOMAIN LowerOf : LowerOf[u] = c]

\* the letter in the other case
OtherCase(c) ==
    IF c \in DOMAIN LowerOf THEN LowerOf[c]
    ELSE IF c \in DOMAIN UpperOf THEN UpperOf[c] ELSE c

EditQueries(maxTokens) ==
    UNION {{Concat(ts) : ts \in [1..n -> EditTokens]} : n \in 1..maxTokens}

\* the variants of a query, each with the edit that makes it and the
\* character the edit is about
Variants(q) ==
    {[query |-> q, edit |-> "case", char |-> q[i],
      variant |-> [q EXCEPT ![i] = OtherCase(q[i])]] :
        i \in {i \in 1..Len(q) : OtherCase(q[i]) # q[i]}}
    \cup
    {[query |-> q, edit |-> "insert", char |-> c,
      variant |-> SubSeq(q, 1, i) \o <<c>> \o SubSeq(q, i + 1, Len(q))] :
        i \in 0..Len(q), c \in Punctuation}
    \cup
    {[query |-> q, edit |-> "delete", char |-> q[i],
      variant |-> SubSeq(q, 1, i - 1) \o SubSeq(q, i + 1, Len(q))] :
        i \in {i \in 1..Len(q) : q[i] \in Punctuation}}

EditInputs(maxTokens) == UNION {Variants(q) : q \in EditQueries(maxTokens)}

InitEdit ==
    /\ index = {} /\ now = 0 /\ ingest = <<>> /\ req = <<>> /\ resp = <<>>
    /\ calls = <<>>
    /\ fn = "classify-pair"
    /\ arg \in EditInputs(MaxEditTokens)
    /\ out = <<>>

\* isGenericQuery on the query and on its variant
EditApply ==
    /\ fn = "classify-pair" /\ out = <<>>
    /\ out' = <<isGenericQuery(arg.query), isGenericQuery(arg.variant)>>
    /\ UNCHANGED <<index, now, ingest, req, resp, calls, fn, arg>>

NextEdit == EditApply

SpecEdit == InitEdit /\ [][NextEdit]_vars

EditDone == fn = "classify-pair" /\ Len(out) = 2

\* C25 as stated: a change of case, or the insertion or deletion of a
\* punctuation character, leaves the classification as it was.
C25_CaseAndPunctuationInsensitive ==
    EditDone => out[1] = out[2]

\* C25, amended: a change of case, or the insertion or deletion of a
\* punctuation character other than the underscore, leaves the
\* classification as it was.
C25_InsensitiveButUnderscore ==
    (EditDone /\ (arg.edit = "case" \/ arg.char # "_")) => out[1] = out[2]

\* a generic query stayed generic with a "!" inserted inside its phrase
C25_Witness ==
    /\ EditDone /\ arg.edit = "insert" /\ arg.char = "!"
    /\ out[1] /\ out[2]
    /\ \E i \in 2..(Len(arg.variant) - 1) :
          /\ arg.variant[i] = "!"
          /\ IsWord(arg.variant[i - 1]) /\ IsWord(arg.variant[i + 1])

\* a generic query stayed generic with its first letter in upper case
C25_WitnessCase ==
    /\ EditDone /\ arg.edit = "case" /\ out[1] /\ out[2]
    /\ arg.variant[1] = "S"

\* an underscore inserted in the phrase made a generic query specific
C25_WitnessUnderscore ==
    /\ EditDone /\ arg.edit = "insert" /\ arg.char = "_" /\ out[1] /\ ~out[2]

-----------------------------------------------------------------------------
(* The text of the chunks returned (under SpecChunks) *)

\* the match a chunk was built from
MatchOfChunk(c) == CHOOSE m \in Range(arg) : m.id = c.id

\* C26: the text of every chunk returned is the text stored in the metadata
\* of the match the chunk was built from.
C26_TextVerbatim ==
    ChunksDone =>
        \A i \in 1..Len(out[1].matchedChunks) :
            /\ \E m \in Range(arg) : m.id = out[1].matchedChunks[i].id
            /\ out[1].matchedChunks[i].text = MatchOfChunk(out[1].matchedChunks[i]).text

\* the text is the stored one whenever the match carries a text, and in
\* query-pdf always
C26_VerbatimWhenStored ==
    ChunksDone =>
        \A i \in 1..Len(out[1].matchedChunks) :
            LET c == out[1].matchedChunks[i]
            IN  /\ \E m \in Range(arg) : m.id = c.id
                /\ (TextIsString(MatchOfChunk(c)) \/ fn # "recent-only")
                       => c.text = MatchOfChunk(c).text
                /\ ~TextIsString(MatchOfChunk(c)) => c.text = ""

-----------------------------------------------------------------------------
(* Uploads, one at a time, through the two ingestion handlers: parse-pdf   *)
(* (app/api/parse-pdf/route.ts), which awaits every step inside its try    *)
(* block, and the handler that returns a promise resolved from the events  *)
(* of the PDF parser.  ingest holds the upload being processed and where   *)
(* it stands, resp the response once there is one.  Every step may fail.   *)

MaxUploads == 3

UploadHandlers == {"parse-pdf", "promise"}

UploadFiles == {"a.pdf", "b.pdf", Null}

Upload(handler, filename, timestamp, totalChunks, pc) ==
    [handler |-> handler, filename |-> filename, timestamp |-> timestamp,
     totalChunks |-> totalChunks, pc |-> pc]

UploadResponse(status, error) == [status |-> status, error |-> error]

InitUpload ==
    /\ index = {} /\ now = Epoch /\ ingest = <<>> /\ req = <<>> /\ resp = <<>>
    /\ calls = <<>>
    /\ fn = "upload" /\ arg = <<>> /\ out = <<>>

\* POST up to the read of Date.now(): a request without a file is answered
UploadReceive ==
    /\ fn = "upload" /\ ingest = <<>> /\ resp = <<>>
    /\ now < Epoch + MaxUploads
    /\ \E handler \in UploadHandlers, filename \in UploadFiles, totalChunks \in ChunkCounts :
          IF filename = Null
          THEN /\ totalChunks = 1
               /\ ingest' = <<Upload(handler, filename, now, 0, "done")>>
               /\ resp' = <<UploadResponse(400, "No file uploaded")>>
          ELSE /\ ingest' = <<Upload(handler, filename, now, totalChunks, "parsing")>>
               /\ resp' = resp
    /\ UNCHANGED <<index, now, req, calls, fn, arg, out>>

\* pdfParser.parseBuffer: pdfParser_dataReady or pdfParser_dataError
UploadParse ==
    /\ fn = "upload" /\ ingest # <<>> /\ ingest[1].pc = "parsing"
    /\ \E ok \in BOOLEAN :
          IF ok
          THEN /\ ingest' = <<[ingest[1] EXCEPT !.pc = "splitting"]>>
               /\ resp' = resp
          ELSE /\ ingest' = <<[ingest[1] EXCEPT !.pc = "done"]>>
               /\ resp' = <<IF ingest[1].handler = "parse-pdf"
                            THEN UploadResponse(500, "Server error")
                            ELSE UploadResponse(500, "PDF parsing error")>>
    /\ UNCHANGED <<index, now, req, calls, fn, arg, out>>

\* a step after the parser's dataReady event has thrown: parse-pdf is inside
\* its try block and answers from the catch; in the other handler the throw
\* is in the async listener of the event, whose promise nobody awaits, and
\* resolve is never called
UploadThrown ==
    IF ingest[1].handler = "parse-pdf"
    THEN /\ ingest' = <<[ingest[1] EXCEPT !.pc = "done"]>>
         /\ resp' = <<UploadResponse(500, "Server error")>>
    ELSE /\ ingest' = <<[ingest[1] EXCEPT !.pc = "hung"]>>
         /\ resp' = resp

\* the text of the pages is decoded and split into chunks
UploadSplit ==
    /\ fn = "upload" /\ ingest # <<>> /\ ingest[1].pc = "splitting"
    /\ \E ok \in BOOLEAN :
          IF ok
          THEN /\ ingest' = <<[ingest[1] EXCEPT !.pc = "embedding"]>>
               /\ resp' = resp
          ELSE UploadThrown
    /\ UNCHANGED <<index, now, req, calls, fn, arg, out>>

\* the pipeline is loaded and every chunk is embedded
UploadEmbed ==
    /\ fn = "upload" /\ ingest # <<>> /\ ingest[1].pc = "embedding"
    /\ \E ok \in BOOLEAN :
          IF ok
          THEN /\ ingest' = <<[ingest[1] EXCEPT !.pc = "upserting"]>>
               /\ resp' = resp
          ELSE UploadThrown
    /\ UNCHANGED <<index, now, req, calls, fn, arg, out>>

\* index.namespace("pdf-data").upsert(vectors) and the response
UploadUpsert ==
    /\ fn = "upload" /\ ingest # <<>> /\ ingest[1].pc = "upserting"
    /\ \E result \in {"ok", "too large", "failed"} :
          /\ index' = IF result = "ok"
                      THEN Upsert(index, Vectors(ingest[1].filename, ingest[1].timestamp,
                                                 ingest[1].totalChunks))
                      ELSE index
          /\ resp' = <<IF result = "ok"
                       THEN UploadResponse(200, "")
                       ELSE IF result = "too large"
                       THEN UploadResponse(413, "File generates too much data for processing")
                       ELSE UploadResponse(500, "Failed to process PDF")>>
    /\ ingest' = <<[ingest[1] EXCEPT !.pc = "done"]>>
    /\ UNCHANGED <<now, req, calls, fn, arg, out>>

\* the client has the response; a millisecond passes
UploadTaken ==
    /\ fn = "upload" /\ resp # <<>>
    /\ resp' = <<>> /\ ingest' = <<>> /\ now' = now + 1
    /\ UNCHANGED <<index, req, calls, fn, arg, out>>

NextUpload ==
    \/ UploadReceive
    \/ UploadParse
    \/ UploadSplit
    \/ UploadEmbed
    \/ UploadUpsert
    \/ UploadTaken

\* every collaborator called returns or throws, and the event loop runs the
\* continuation
SpecUpload ==
    /\ InitUpload /\ [][NextUpload]_vars
    /\ WF_vars(UploadParse) /\ WF_vars(UploadSplit)
    /\ WF_vars(UploadEmbed) /\ WF_vars(UploadUpsert)

UploadPending == fn = "upload" /\ ingest # <<>> /\ resp = <<>>

UploadAnswered == fn = "upload" /\ Len(resp) = 1

\* C27: every upload request is eventually answered, whichever step fails.
C27_UploadAnswered == UploadPending ~> UploadAnswered

\* parse-pdf answers every upload
C27_ParsePdfAnswered ==
    (UploadPending /\ ingest[1].handler = "parse-pdf") ~> UploadAnswered

\* no request is answered twice: a response is sent in the step that ends
\* the processing, and only there
C27_AtMostOneResponse ==
    fn = "upload" => /\ Len(resp) <= 1
                     /\ Len(resp) = 1 => ingest[1].pc = "done"

-----------------------------------------------------------------------------
(* The ids of the vectors two ingestions write.  parse-pdf and the handler *)
(* of part_002 build the id from the sanitized file name, the chunk index  *)
(* and the timestamp of the upload; debug-ingest from the chunk index.     *)

MaxIdChunks == 2

IdFiles == {"a.pdf", "a_pdf", "b.pdf"}

IdTimestamps == {Epoch, Epoch + 1}

\* filename.replace(/[^a-zA-Z0-9]/g, "_")
Sanitize == ("a.pdf" :> "a_pdf") @@ ("a_pdf" :> "a_pdf") @@ ("b.pdf" :> "b_pdf")

\* `${sanitized}-chunk-${chunkIndex}-${timestamp}`
ParsePdfId(filename, chunkIndex, timestamp) == <<Sanitize[filename], chunkIndex, timestamp>>

\* `chunk-${idx}`
DebugIngestId(filename, chunkIndex, timestamp) == <<"chunk", chunkIndex>>

\* the vectors an ingestion writes for a document
IdVectors(route, doc) ==
    {[id |-> IF route = "parse-pdf"
             THEN ParsePdfId(doc.filename, chunkIndex, doc.timestamp)
             ELSE DebugIngestId(doc.filename, chunkIndex, doc.timestamp),
      source |-> doc.filename, timestamp |-> doc.timestamp, chunkIndex |-> chunkIndex,
      text |-> "text"] : chunkIndex \in 0..(doc.totalChunks - 1)}

IdDocs(maxChunks) ==
    [filename : IdFiles, timestamp : IdTimestamps, totalChunks : 1..maxChunks]

\* two ingestions through one route, of two different documents
IdInputs(maxChunks) ==
    {i \in [route : {"parse-pdf", "debug-ingest"},
             first : IdDocs(maxChunks), second : IdDocs(maxChunks)] :
        i.first.filename # i.second.filename}

InitIds ==
    /\ index = {} /\ now = Epoch + 1 /\ ingest = <<>> /\ req = <<>> /\ resp = <<>>
    /\ calls = <<>>
    /\ fn = "ids"
    /\ arg \in IdInputs(MaxIdChunks)
    /\ out = <<>>

\* the first document is stored
IdsFirst ==
    /\ fn = "ids" /\ out = <<>>
    /\ out' = <<Upsert({}, IdVectors(arg.route, arg.first))>>
    /\ UNCHANGED <<index, now, ingest, req, resp, calls, fn, arg>>

\* the second document is stored
IdsSecond ==
    /\ fn = "ids" /\ Len(out) = 1
    /\ out' = Append(out, Upsert(out[1], IdVectors(arg.route, arg.second)))
    /\ UNCHANGED <<index, now, ingest, req, resp, calls, fn, arg>>

NextIds == IdsFirst \/ IdsSecond

SpecIds == InitIds /\ [][NextIds]_vars

IdsDone == fn = "ids" /\ Len(out) = 2

\* C28: the ids of the vectors of two different documents are distinct, and
\* after the second ingestion every vector of the first is still stored.
C28_NothingOverwritten ==
    IdsDone =>
        /\ \A v \in IdVectors(arg.route, arg.first), w \in IdVectors(arg.route, arg.second) :
              v.id # w.id
        /\ out[1] \subseteq out[2]

\* parse-pdf overwrites nothing unless the two file names have the same
\* sanitized form and the uploads the same millisecond
C28_DistinctWhenSanitizedDiffer ==
    (IdsDone /\ arg.route = "parse-pdf"
        /\ (Sanitize[arg.first.filename] # Sanitize[arg.second.filename]
               \/ arg.first.timestamp # arg.second.timestamp))
        => out[1] \subseteq out[2]

\* a.pdf and a_pdf uploaded in the same millisecond: the second replaced
\* the vectors of the first
C28_WitnessCollision ==
    /\ IdsDone /\ arg.route = "parse-pdf"
    /\ arg.first.filename = "a.pdf" /\ arg.second.filename = "a_pdf"
    /\ out[1] \cap out[2] = {}

-----------------------------------------------------------------------------
(* The prompt of get-answer (under Spec) *)

\* get-answer has sent a prompt to the generation collaborator and answered
Generated == Served("get-answer") /\ resp[1].status = 200 /\ "queryInfo" \in resp[1].keys

\* C30: the prompt describes the question as a general question about the
\* document exactly when query-pdf classified the query as generic.
C30_PromptFollowsClassification ==
    Generated => (resp[1].promptGeneric <=> isGenericQuery(req[1].query))

\* the prompt always describes the question as a specific one
C30_PromptAlwaysSpecific ==
    Generated => ~resp[1].promptGeneric

=============================================================================
